---------------------------- MODULE Spec2Model ----------------------------
(***************************************************************************)
(* A model of the Codi conversational agent (tognete/codi):                *)
(*   - the task classifier            agent.py  _identify_task_type        *)
(*   - the code-change extractor      agent.py  _parse_code_changes        *)
(*   - the chat turn                  agent.py  chat, process_task         *)
(*   - the progress reporter          workflow_logger.py                   *)
(*   - the conversation store         chat.py                              *)
(*   - the two front ends             cli.py, slack_bot.py                 *)
(*                                                                         *)
(* Python strings are sequences of one-character strings, so that          *)
(* startswith, strip, split, lower and the `in` test are computed on the   *)
(* characters as the interpreter computes them.                            *)
(***************************************************************************)
EXTENDS Integers, Sequences, FiniteSets, TLC

(***************************************************************************)
(* Python string primitives                                                *)
(***************************************************************************)

\* The backquote character, which a TLA+ string literal cannot hold.
BT == "backquote"

\* Python's None.  A one-element tuple whose element is not a character,
\* so it differs from every string, the empty string included.
None == <<"None">>

\* The characters str.strip() and str.split() treat as whitespace.
Whitespace == {" ", "\t", "\n", "\r"}

\* A truth test that only rules out None: `is not None`.
Truthy_IsNotNone(s) == s # None

\* bool(x) for x a string or None: None and "" are falsy.
Truthy(s) == s # None /\ s # <<>>

\* s.startswith(p)
StartsWith(s, p) == Len(s) >= Len(p) /\ SubSeq(s, 1, Len(p)) = p

\* sub in s
Contains(s, sub) ==
    \E i \in 1..(Len(s) - Len(sub) + 1) : SubSeq(s, i, i + Len(sub) - 1) = sub

\* The index of the first occurrence of sub in s, 0 if there is none.
FindFirst(s, sub) ==
    IF Contains(s, sub)
    THEN CHOOSE i \in 1..(Len(s) - Len(sub) + 1) :
            /\ SubSeq(s, i, i + Len(sub) - 1) = sub
            /\ \A j \in 1..(i - 1) : SubSeq(s, j, j + Len(sub) - 1) # sub
    ELSE 0

RECURSIVE LStrip(_)
LStrip(s) == IF s # <<>> /\ Head(s) \in Whitespace THEN LStrip(Tail(s)) ELSE s

RECURSIVE RStrip(_)
RStrip(s) ==
    IF s # <<>> /\ s[Len(s)] \in Whitespace
    THEN RStrip(SubSeq(s, 1, Len(s) - 1))
    ELSE s

\* s.strip()
Strip(s) == RStrip(LStrip(s))

\* s.split(c) for a one-character separator c: "".split(c) is [""].
RECURSIVE SplitChar(_, _)
SplitChar(s, c) ==
    IF c \in {s[i] : i \in 1..Len(s)}
    THEN LET k == CHOOSE i \in 1..Len(s) :
                     s[i] = c /\ \A j \in 1..(i - 1) : s[j] # c
         IN  <<SubSeq(s, 1, k - 1)>> \o SplitChar(SubSeq(s, k + 1, Len(s)), c)
    ELSE <<s>>

\* s.split()[0] for a string with a non-whitespace character: the first
\* whitespace-delimited token.
FirstToken(s) ==
    LET t == LStrip(s)
        ws == {i \in 1..Len(t) : t[i] \in Whitespace}
    IN  IF ws = {} THEN t
        ELSE SubSeq(t, 1, (CHOOSE i \in ws : \A j \in ws : i <= j) - 1)

\* s.split(sep, 1)[1] for a string that contains sep.
AfterFirst(s, sep) == SubSeq(s, FindFirst(s, sep) + Len(sep), Len(s))

\* sep.join(parts)
RECURSIVE Join(_, _)
Join(parts, sep) ==
    IF parts = <<>> THEN <<>>
    ELSE IF Len(parts) = 1 THEN parts[1]
    ELSE parts[1] \o sep \o Join(Tail(parts), sep)

\* The upper-case letters and their lower-case forms.
UpperToLower ==
    [A |-> "a", B |-> "b", C |-> "c", D |-> "d", E |-> "e", F |-> "f",
     G |-> "g", H |-> "h", I |-> "i", J |-> "j", K |-> "k", L |-> "l",
     M |-> "m", N |-> "n", O |-> "o", P |-> "p", Q |-> "q", R |-> "r",
     S |-> "s", T |-> "t", U |-> "u", V |-> "v", W |-> "w", X |-> "x",
     Y |-> "y", Z |-> "z"]

\* s.lower()
Lower(s) ==
    [i \in 1..Len(s) |->
        IF s[i] \in DOMAIN UpperToLower THEN UpperToLower[s[i]] ELSE s[i]]

\* any(keyword in s for keyword in keywords)
AnyIn(keywords, s) == \E i \in 1..Len(keywords) : Contains(s, keywords[i])

(***************************************************************************)
(* State                                                                   *)
(***************************************************************************)

VARIABLES
    c_pc,          \* classifier call: "call" before, "returned" after
    c_message,     \* the message argument of _identify_task_type
    c_task_type    \* its return value

classifyVars == <<c_pc, c_message, c_task_type>>

(***************************************************************************)
(* Task classifier: CodiAgent._identify_task_type                          *)
(***************************************************************************)

\* The task kinds, as the Python strings the classifier returns.
ANALYZE == <<"a", "n", "a", "l", "y", "z", "e">>
GENERATE == <<"g", "e", "n", "e", "r", "a", "t", "e">>
REVIEW == <<"r", "e", "v", "i", "e", "w">>

\* An analyze group without the two words the review phrases begin with.
AnalyzeKeywords_Narrow ==
    << <<"a", "n", "a", "l", "y", "z", "e">>,
       <<"l", "o", "o", "k", " ", "a", "t">> >>

\* agent.py line 273
AnalyzeKeywords ==
    << <<"a", "n", "a", "l", "y", "z", "e">>,
       <<"r", "e", "v", "i", "e", "w">>,
       <<"c", "h", "e", "c", "k">>,
       <<"l", "o", "o", "k", " ", "a", "t">> >>

\* agent.py line 275
GenerateKeywords ==
    << <<"g", "e", "n", "e", "r", "a", "t", "e">>,
       <<"c", "r", "e", "a", "t", "e">>,
       <<"w", "r", "i", "t", "e">>,
       <<"i", "m", "p", "l", "e", "m", "e", "n", "t">> >>

\* agent.py line 277
ReviewKeywords ==
    << <<"r", "e", "v", "i", "e", "w", " ", "p", "r">>,
       <<"r", "e", "v", "i", "e", "w", " ", "p", "u", "l", "l", " ", "r", "e", "q", "u", "e", "s", "t">>,
       <<"c", "h", "e", "c", "k", " ", "p", "r">> >>

\* A classifier that tests the review phrases before the analyze keywords.
identify_task_type_ReviewFirst(message) ==
    LET message_lower == Lower(message)
    IN  IF AnyIn(ReviewKeywords, message_lower) THEN REVIEW
        ELSE IF AnyIn(AnalyzeKeywords, message_lower) THEN ANALYZE
        ELSE IF AnyIn(GenerateKeywords, message_lower) THEN GENERATE
        ELSE None

\* A classifier that tests the generate keywords before the analyze keywords.
identify_task_type_GenerateFirst(message) ==
    LET message_lower == Lower(message)
    IN  IF AnyIn(GenerateKeywords, message_lower) THEN GENERATE
        ELSE IF AnyIn(AnalyzeKeywords, message_lower) THEN ANALYZE
        ELSE IF AnyIn(ReviewKeywords, message_lower) THEN REVIEW
        ELSE None

\* CodiAgent._identify_task_type(message): Optional[str]
identify_task_type(message) ==
    LET message_lower == Lower(message)
    IN  IF AnyIn(AnalyzeKeywords, message_lower) THEN ANALYZE
        ELSE IF AnyIn(GenerateKeywords, message_lower) THEN GENERATE
        ELSE IF AnyIn(ReviewKeywords, message_lower) THEN REVIEW
        ELSE None

\* The pieces the classifier's bounded inputs are concatenated from: every
\* keyword whole or in two halves, an upper-case form, and neutral text.
ClassifierChunks ==
    { <<"a", "n", "a", "l", "y", "z", "e">>,
      <<"r", "e", "v", "i", "e", "w">>,
      <<"R", "E", "V", "I", "E", "W">>,
      <<"c", "h", "e", "c", "k">>,
      <<"l", "o", "o", "k">>,
      <<" ", "a", "t">>,
      <<"g", "e", "n", "e", "r", "a", "t", "e">>,
      <<"c", "r", "e", "a", "t", "e">>,
      <<"w", "r", "i", "t", "e">>,
      <<"i", "m", "p", "l", "e", "m", "e", "n", "t">>,
      <<" ", "p", "r">>,
      <<" ", "p", "u", "l", "l", " ", "r", "e", "q", "u", "e", "s", "t">>,
      <<"h", "e", "l", "l", "o">>,
      <<" ">> }

\* The longest classifier input, in chunks.
MaxChunks == 3

RECURSIVE ChunkStrings(_)
ChunkStrings(n) ==
    IF n = 0 THEN {<<>>}
    ELSE ChunkStrings(n - 1)
            \cup {m \o c : m \in ChunkStrings(n - 1), c \in ClassifierChunks}

\* Whole messages classified besides the concatenations: a message with a
\* word of the analyze group before a word of the generate group, and a
\* message with "check" in front of an upper-case "PR".
REVIEW_AND_GENERATE == <<"r", "e", "v", "i", "e", "w", " ", "a", "n", "d", " ", "g", "e", "n", "e", "r", "a", "t", "e", " ", "t", "e", "s", "t", "s">>
CHECK_PR_4 == <<"c", "h", "e", "c", "k", " ", "P", "R", " ", "#", "4">>
ClassifierExamples == {REVIEW_AND_GENERATE, CHECK_PR_4}

ClassifierMessages == ChunkStrings(MaxChunks) \cup ClassifierExamples

ClassifyInit ==
    /\ c_pc = "call"
    /\ c_message \in ClassifierMessages
    /\ c_task_type = None

ClassifyIdle ==
    /\ c_pc = "off"
    /\ c_message = <<>>
    /\ c_task_type = None

\* One call of _identify_task_type on the drawn message.
Classify ==
    /\ c_pc = "call"
    /\ c_task_type' = identify_task_type(c_message)
    /\ c_pc' = "returned"
    /\ UNCHANGED c_message

(***************************************************************************)
(* Code-change extractor: CodiAgent._parse_code_changes                    *)
(***************************************************************************)

VARIABLES
    p_pc,             \* extractor call: "call", "loop", "returned"
    files,            \* context.files the input was rendered from, as the
                      \* dict's (path, content) items in order; None if the
                      \* input text was drawn directly
    generated_code,   \* the text argument
    lines,            \* generated_code.split("\n")
    line_no,          \* index in lines of the next line of the for loop
    changes,          \* the dict being built
    current_file,     \* path of the open file, or None
    current_content,  \* lines accumulated for the open file
    p_result          \* the returned dict, None before the return

parseVars == <<p_pc, files, generated_code, lines, line_no, changes,
               current_file, current_content, p_result>>

FENCE == <<BT, BT, BT>>
FILE_LABEL == <<"F", "i", "l", "e", ":", " ">>
FILENAME_LABEL == <<"f", "i", "l", "e", "n", "a", "m", "e", ":", " ">>
NEWLINE == <<"\n">>

\* {} and d[k] = v on a dict keyed by strings.
EmptyDict == [k \in {} |-> <<>>]
Put(d, k, v) == [x \in (DOMAIN d) \cup {k} |-> IF x = k THEN v ELSE d[x]]

\* The three locals of _parse_code_changes as one value.
ParseState(ch, cf, cc) ==
    [changes |-> ch, current_file |-> cf, current_content |-> cc]

\* line.startswith("```") and len(line) > 3
IsFenceOpen(line) == StartsWith(line, FENCE) /\ Len(line) > 3

\* line.startswith("File: ") or line.startswith("filename: ")
IsFileLabel(line) ==
    StartsWith(line, FILE_LABEL) \/ StartsWith(line, FILENAME_LABEL)

\* line.startswith("```") and len(line) == 3
IsFenceClose(line) == StartsWith(line, FENCE) /\ Len(line) = 3

\* A test that looks at the path only.
HasOpenContent_PathOnly(st) == Truthy(st.current_file)

\* if current_file and current_content
HasOpenContent(st) == Truthy(st.current_file) /\ st.current_content # <<>>

\* A commit that keeps the value a path already has.
ClosePrevious_KeepsFirst(st) ==
    IF Truthy(st.current_file) /\ st.current_content # <<>>
    THEN [st EXCEPT !.changes =
                        IF st.current_file \in DOMAIN st.changes
                        THEN st.changes
                        ELSE Put(st.changes, st.current_file,
                                 Join(st.current_content, <<"\n">>)),
                    !.current_content = <<>>]
    ELSE st

\* "Close previous file if any": changes[current_file] = "\n".join(...),
\* current_content = []
ClosePrevious(st) ==
    IF HasOpenContent(st)
    THEN [st EXCEPT !.changes = Put(st.changes, st.current_file,
                                    Join(st.current_content, NEWLINE)),
                    !.current_content = <<>>]
    ELSE st

\* A tagged fence that unsets current_file when its tag names no path.
OnFenceOpen_PlainTagUnsets(st, line) ==
    LET closed == ClosePrevious(st)
        lang_or_file == Strip(SubSeq(line, 4, Len(line)))
    IN  IF Contains(lang_or_file, <<"/">>) \/ Contains(lang_or_file, <<".">>)
        THEN [closed EXCEPT !.current_file = FirstToken(lang_or_file)]
        ELSE [closed EXCEPT !.current_file = None]

\* Lines 643-653: a fence line with a tag.
OnFenceOpen(st, line) ==
    LET closed == ClosePrevious(st)
        lang_or_file == Strip(SubSeq(line, 4, Len(line)))
    IN  IF Contains(lang_or_file, <<"/">>) \/ Contains(lang_or_file, <<".">>)
        THEN [closed EXCEPT !.current_file = FirstToken(lang_or_file)]
        ELSE closed

\* Lines 655-662: a File: or filename: label.
OnFileLabel(st, line) ==
    [ClosePrevious(st) EXCEPT
        !.current_file = Strip(AfterFirst(line, <<":", " ">>))]

\* A bare fence that closes the file whatever its buffer holds.
OnFenceCloseAlways(st, line) ==
    [ClosePrevious(st) EXCEPT !.current_file = None, !.current_content = <<>>]

\* A bare fence that commits the buffer but leaves the file open.
OnFenceCloseKeepsFile(st, line) == ClosePrevious(st)

\* Lines 664-670: a bare fence.
OnFenceClose(st, line) ==
    IF HasOpenContent(st)
    THEN [ClosePrevious(st) EXCEPT !.current_file = None]
    ELSE st

\* An other line that is put in front of the buffer instead of at its end.
OnOtherLinePrepended(st, line) ==
    IF Truthy(st.current_file)
    THEN [st EXCEPT !.current_content = <<line>> \o st.current_content]
    ELSE st

\* Lines 672-673: any other line.
OnOtherLine(st, line) ==
    IF Truthy(st.current_file)
    THEN [st EXCEPT !.current_content = Append(st.current_content, line)]
    ELSE st

\* An end of input that commits the buffer without testing anything.
OnEndOfInput_Unguarded(st) ==
    Put(st.changes, st.current_file, Join(st.current_content, <<"\n">>))

\* An end of input that drops the open file.
OnEndOfInput_NoFlush(st) == st.changes

\* Lines 676-677: "Handle the last file if any".
OnEndOfInput(st) == ClosePrevious(st).changes

\* The body of the for loop, for one line.
ParseLine(st, line) ==
    IF IsFenceOpen(line) THEN OnFenceOpen(st, line)
    ELSE IF IsFileLabel(line) THEN OnFileLabel(st, line)
    ELSE IF IsFenceClose(line) THEN OnFenceClose(st, line)
    ELSE OnOtherLine(st, line)

\* Lines 508-511: one file of context.files rendered as a labelled fence.
FileBlock(path, content) ==
    FILE_LABEL \o path \o NEWLINE \o FENCE \o NEWLINE \o content
        \o NEWLINE \o FENCE

\* Lines 508-511: files_content, the blocks joined by a blank line.
files_content(items) ==
    Join([i \in 1..Len(items) |-> FileBlock(items[i][1], items[i][2])],
         NEWLINE \o NEWLINE)

\* The dict whose items() are the given pairs (keys distinct).
AsDict(items) ==
    [k \in {items[i][1] : i \in 1..Len(items)} |->
        items[CHOOSE i \in 1..Len(items) : items[i][1] = k][2]]

\* The locals of the running call.
Locals == ParseState(changes, current_file, current_content)

\* Assign the locals for the next iteration and advance the for loop.
NextIteration(st) ==
    /\ changes' = st.changes
    /\ current_file' = st.current_file
    /\ current_content' = st.current_content
    /\ line_no' = line_no + 1
    /\ UNCHANGED <<p_pc, files, generated_code, lines, p_result>>

InLoop == p_pc = "loop" /\ line_no <= Len(lines)

\* Lines 636-640: the locals are initialised and the text split.
ParseCall ==
    /\ p_pc = "call"
    /\ p_pc' = "loop"
    /\ lines' = SplitChar(generated_code, "\n")
    /\ line_no' = 1
    /\ changes' = EmptyDict
    /\ current_file' = None
    /\ current_content' = <<>>
    /\ UNCHANGED <<files, generated_code, p_result>>

\* One iteration on a fence line with a tag.
ParseFenceOpen ==
    /\ InLoop
    /\ IsFenceOpen(lines[line_no])
    /\ NextIteration(OnFenceOpen(Locals, lines[line_no]))

\* One iteration on a File: or filename: label.
ParseFileLabel ==
    /\ InLoop
    /\ ~IsFenceOpen(lines[line_no])
    /\ IsFileLabel(lines[line_no])
    /\ NextIteration(OnFileLabel(Locals, lines[line_no]))

\* One iteration on a bare fence.
ParseFenceClose ==
    /\ InLoop
    /\ ~IsFenceOpen(lines[line_no])
    /\ ~IsFileLabel(lines[line_no])
    /\ IsFenceClose(lines[line_no])
    /\ NextIteration(OnFenceClose(Locals, lines[line_no]))

\* One iteration on any other line.
ParseOtherLine ==
    /\ InLoop
    /\ ~IsFenceOpen(lines[line_no])
    /\ ~IsFileLabel(lines[line_no])
    /\ ~IsFenceClose(lines[line_no])
    /\ NextIteration(OnOtherLine(Locals, lines[line_no]))

\* Lines 675-679: the loop is over, the last file is handled, changes returned.
ParseReturn ==
    /\ p_pc = "loop"
    /\ line_no > Len(lines)
    /\ p_pc' = "returned"
    /\ changes' = OnEndOfInput(Locals)
    /\ p_result' = changes'
    /\ UNCHANGED <<files, generated_code, lines, line_no, current_file,
                   current_content>>

\* _parse_code_changes as a function of its argument.
RECURSIVE ParseLines(_, _)
ParseLines(st, ls) ==
    IF ls = <<>> THEN OnEndOfInput(st)
    ELSE ParseLines(ParseLine(st, Head(ls)), Tail(ls))

parse_code_changes(text) ==
    ParseLines(ParseState(EmptyDict, None, <<>>), SplitChar(text, "\n"))

\* The lines the extractor's bounded inputs are made of: both label forms,
\* a label with no path, a bare fence, a fence with a language tag, a fence
\* with a language tag and a path, and content lines.
LineVocab ==
    { <<"F", "i", "l", "e", ":", " ", "a", ".", "p", "y">>,
      <<"F", "i", "l", "e", ":", " ">>,
      <<"f", "i", "l", "e", "n", "a", "m", "e", ":", " ", "b", "/", "c">>,
      <<BT, BT, BT>>,
      <<BT, BT, BT, "p", "y", "t", "h", "o", "n">>,
      <<BT, BT, BT, "p", "y", "t", "h", "o", "n", " ", "a", ".", "p", "y">>,
      <<"x">>,
      <<"y", " ", "z">>,
      <<>> }

\* The longest extractor input drawn line by line.
MaxLines == 4

RECURSIVE LineSeqs(_)
LineSeqs(n) ==
    IF n = 0 THEN {<<>>}
    ELSE LineSeqs(n - 1)
            \cup {ls \o <<l>> : ls \in LineSeqs(n - 1), l \in LineVocab}

ParseTexts == {Join(ls, NEWLINE) : ls \in LineSeqs(MaxLines)}

\* Keys and values of the context.files mappings that are rendered.
FilePaths ==
    { <<"a", ".", "p", "y">>,
      <<"b", "/", "c">>,
      <<"d", ".", "t", "x", "t">> }

FileContents ==
    { <<"x">>,
      <<"x", "\n", "y", " ", "z">>,
      <<>>,
      <<BT, BT, BT>>,
      <<"x", "\n", BT, BT, BT, "p", "y">>,
      <<"F", "i", "l", "e", ":", " ", "e">> }

\* The most files in a rendered mapping.
MaxFiles == 2

RECURSIVE ItemSeqs(_)
ItemSeqs(n) ==
    IF n = 0 THEN {<<>>}
    ELSE ItemSeqs(n - 1)
            \cup {its \o <<(<<path, content>>)>> :
                    its \in {s \in ItemSeqs(n - 1) : Len(s) = n - 1},
                    path \in FilePaths, content \in FileContents}

FileMappings ==
    {its \in ItemSeqs(MaxFiles) :
        \A i, j \in 1..Len(its) : its[i][1] = its[j][1] => i = j}

ParseLocalsInit ==
    /\ lines = <<>>
    /\ line_no = 0
    /\ changes = EmptyDict
    /\ current_file = None
    /\ current_content = <<>>
    /\ p_result = EmptyDict

ParseInit ==
    /\ p_pc = "call"
    /\ files \in FileMappings
    /\ \/ files = <<>> /\ generated_code \in ParseTexts
       \/ files # <<>> /\ generated_code = files_content(files)
    /\ ParseLocalsInit

ParseIdle ==
    /\ p_pc = "off"
    /\ files = <<>>
    /\ generated_code = <<>>
    /\ ParseLocalsInit

(***************************************************************************)
(* Conversation store: chat.py, class ChatMemory                           *)
(***************************************************************************)

\* Message(role, content, timestamp, metadata); the timestamp is
\* datetime.now() and is read by nothing, so it is left out.
Message(role, content, metadata) ==
    [role |-> role, content |-> content, metadata |-> metadata]

\* ChatMemory.current_conversation when it is None.
NoConversation ==
    [active |-> FALSE, messages |-> <<>>, context |-> EmptyDict,
     workspace_path |-> None]

\* ChatMemory.start_conversation: a new empty Conversation replaces the
\* current one.
start_conversation(workspace_path) ==
    [active |-> TRUE, messages |-> <<>>, context |-> EmptyDict,
     workspace_path |-> workspace_path]

\* add_message that puts the new message first.
add_message_Prepends(conv, role, content, metadata) ==
    LET c == IF ~conv.active THEN start_conversation(None) ELSE conv
    IN  [c EXCEPT !.messages = <<Message(role, content, metadata)>> \o @]

\* add_message that does nothing when there is no conversation.
add_message_NoStart(conv, role, content, metadata) ==
    IF ~conv.active THEN conv
    ELSE [conv EXCEPT !.messages = Append(@, Message(role, content, metadata))]

\* add_message that replaces the history by the new message.
add_message_Overwrite(conv, role, content, metadata) ==
    LET c == IF ~conv.active THEN start_conversation(None) ELSE conv
    IN  [c EXCEPT !.messages = <<Message(role, content, metadata)>>]

\* ChatMemory.add_message: the conversation after the call.
add_message(conv, role, content, metadata) ==
    LET c == IF ~conv.active THEN start_conversation(None) ELSE conv
    IN  [c EXCEPT !.messages = Append(@, Message(role, content, metadata))]

\* ChatMemory.get_conversation_context
get_conversation_context(conv) ==
    IF ~conv.active THEN EmptyDict ELSE conv.context

\* An update in which the value already there wins.
DictUpdate_FirstWins(d, updates) ==
    [k \in (DOMAIN d) \cup (DOMAIN updates) |->
        IF k \in DOMAIN d THEN d[k] ELSE updates[k]]

\* dict.update(updates)
DictUpdate(d, updates) ==
    [k \in (DOMAIN d) \cup (DOMAIN updates) |->
        IF k \in DOMAIN updates THEN updates[k] ELSE d[k]]

\* ChatMemory.update_context: the conversation after the call.
update_context(conv, updates) ==
    LET c == IF ~conv.active THEN start_conversation(None) ELSE conv
    IN  [c EXCEPT !.context = DictUpdate(@, updates)]

\* The slice s[-limit:] of a list.
SliceFromMinus(s, limit) ==
    LET start == IF limit > 0 THEN (IF limit >= Len(s) THEN 0 ELSE Len(s) - limit)
                 ELSE (IF -limit >= Len(s) THEN Len(s) ELSE -limit)
    IN  SubSeq(s, start + 1, Len(s))

\* ChatMemory.get_recent_messages
get_recent_messages(conv, limit) ==
    IF ~conv.active THEN <<>> ELSE SliceFromMinus(conv.messages, limit)

\* The default of get_recent_messages' limit parameter.
DefaultLimit == 10

(***************************************************************************)
(* Progress reporter: workflow_logger.py, class WorkflowLogger             *)
(*                                                                         *)
(* The reporter's methods act on a pair: lg, the logger's two fields, and  *)
(* g, the record of what the calling turn has done so far (history only:   *)
(* the code keeps no such record).                                         *)
(***************************************************************************)

\* WorkflowLogger.__init__
NewLogger == [step_count |-> 0, active_tasks |-> <<>>]

\* What one turn has done, before it has done anything.
NewHistory(turn_no) ==
    [turn_no |-> turn_no,      \* how many turns this front end has started
     outcome |-> "running",    \* how the turn ended
     response |-> None,        \* what chat() returned
     raised |-> None,          \* the failure raised inside the turn's try
     resets |-> 0,             \* calls of reset()
     reset_first |-> TRUE,     \* no reporter call of the turn preceded reset()
     dirty |-> FALSE,          \* reset() found a counter or a stack to clear
     after_reset |-> NewLogger, \* the reporter as reset() left it
     pushes |-> 0,             \* steps log_step pushed
     pops |-> 0,               \* steps log_result popped
     failed |-> 0,             \* failed results reported
     user_at |-> 0,            \* position of the turn's user message
     asst_at |-> 0,            \* position of the turn's assistant message
     beat |-> "none",          \* state of the awaited task at the last
                               \* call of log_working
     events |-> <<>>]          \* what the turn did once its completion was
                               \* awaited, in order: "reply" (recorded),
                               \* "classify", "task", "scan"

\* The history with one more thing the turn did.
Noted(e, event) == [e EXCEPT !.g.events = Append(@, event)]

\* WorkflowLogger.log_step
log_step(e, action) ==
    [e EXCEPT !.lg.step_count = @ + 1,
              !.lg.active_tasks = Append(@, action),
              !.g.pushes = @ + 1]

\* log_working that takes the step it reports on off the stack.
log_working_Pops(e, awaited_state) ==
    IF e.lg.active_tasks # <<>>
    THEN [e EXCEPT !.g.beat = awaited_state,
                   !.lg.active_tasks = SubSeq(@, 1, Len(@) - 1)]
    ELSE e

\* WorkflowLogger.log_working, called while the awaited task is in the
\* given state: a notice is emitted if a step is active.
log_working(e, awaited_state) ==
    IF e.lg.active_tasks # <<>>
    THEN [e EXCEPT !.g.beat = awaited_state]
    ELSE e

\* log_result that takes the step back off the counter as well.
log_result_Uncounts(e, success) ==
    [e EXCEPT !.lg.step_count = IF @ > 0 THEN @ - 1 ELSE @,
              !.lg.active_tasks =
                  IF @ # <<>> THEN SubSeq(@, 1, Len(@) - 1) ELSE @,
              !.g.pops = IF e.lg.active_tasks # <<>> THEN @ + 1 ELSE @,
              !.g.failed = IF success THEN @ ELSE @ + 1]

\* WorkflowLogger.log_result
log_result(e, success) ==
    [e EXCEPT !.lg.active_tasks =
                  IF @ # <<>> THEN SubSeq(@, 1, Len(@) - 1) ELSE @,
              !.g.pops = IF e.lg.active_tasks # <<>> THEN @ + 1 ELSE @,
              !.g.failed = IF success THEN @ ELSE @ + 1]

\* reset that zeroes the counter and keeps the stack.
reset_KeepsStack(e) ==
    [e EXCEPT !.lg.step_count = 0,
              !.g.resets = @ + 1,
              !.g.reset_first = (e.g.pushes = 0 /\ e.g.pops = 0 /\ e.g.user_at = 0),
              !.g.dirty = (e.lg # NewLogger),
              !.g.after_reset = [e.lg EXCEPT !.step_count = 0]]

\* WorkflowLogger.reset
reset(e) ==
    [e EXCEPT !.lg = NewLogger,
              !.g.resets = @ + 1,
              !.g.reset_first = (e.g.pushes = 0 /\ e.g.pops = 0 /\ e.g.user_at = 0),
              !.g.dirty = (e.lg # NewLogger),
              !.g.after_reset = NewLogger]

(***************************************************************************)
(* Task pipeline, pure parts: agent.py                                     *)
(***************************************************************************)

\* Characters outside the ASCII range that the code's literals hold.
WAVE == "waving hand sign"
SIREN == "police cars revolving light"
BULB == "electric light bulb"

\* self.workspace_path and self.project_name as __init__ sets them.
WORKSPACE_PATH == <<"/", "h", "o", "m", "e", "/", "d", "e", "v", "/", "c", "o", "d", "i">>
PROJECT_NAME == <<"c", "o", "d", "i">>

\* CodeResponse(solution, explanation, suggestions, code_changes)
CodeResponse(solution, explanation, suggestions, code_changes) ==
    [solution |-> solution, explanation |-> explanation,
     suggestions |-> suggestions, code_changes |-> code_changes]

\* agent.py line 629
SuggestionKeywords ==
    << <<"s", "u", "g", "g", "e", "s", "t">>,
       <<"r", "e", "c", "o", "m", "m", "e", "n", "d">>,
       <<"c", "o", "n", "s", "i", "d", "e", "r">>,
       <<"s", "h", "o", "u", "l", "d">>,
       <<"c", "o", "u", "l", "d">> >>

RECURSIVE SuggestionsOf(_)
SuggestionsOf(ls) ==
    IF ls = <<>> THEN <<>>
    ELSE (IF AnyIn(SuggestionKeywords, Lower(Head(ls)))
          THEN <<Strip(Head(ls))>> ELSE <<>>) \o SuggestionsOf(Tail(ls))

\* CodiAgent._extract_suggestions
extract_suggestions(analysis) == SuggestionsOf(SplitChar(analysis, "\n"))

\* agent.py line 475
CriticalKeywords ==
    << <<"c", "r", "i", "t", "i", "c", "a", "l">>,
       <<"s", "e", "c", "u", "r", "i", "t", "y">>,
       <<"v", "u", "l", "n", "e", "r", "a", "b", "i", "l", "i", "t", "y">>,
       <<"u", "r", "g", "e", "n", "t">>,
       <<"b", "u", "g">>,
       <<"e", "r", "r", "o", "r">> >>

IsCritical(suggestion) == AnyIn(CriticalKeywords, Lower(suggestion))

RECURSIVE Marked(_, _)
\* The suggestions that are (critical = TRUE) or are not (FALSE) critical,
\* in order, each with its marker in front (lines 471-478).
Marked(suggestions, critical) ==
    IF suggestions = <<>> THEN <<>>
    ELSE (IF IsCritical(Head(suggestions)) = critical
          THEN <<(IF critical THEN <<SIREN, " ">> ELSE <<BULB, " ">>)
                    \o Head(suggestions)>>
          ELSE <<>>) \o Marked(Tail(suggestions), critical)

\* A list with the other suggestions in front of the critical ones.
prioritized_suggestions_NormalFirst(all_suggestions) ==
    Marked(all_suggestions, FALSE) \o Marked(all_suggestions, TRUE)

\* Lines 470-480: prioritized_suggestions
prioritized_suggestions(all_suggestions) ==
    Marked(all_suggestions, TRUE) \o Marked(all_suggestions, FALSE)

\* Lines 483-493: the solution text of a review.  The inner f-string
\* "\\n{suggestion}" is a backslash, the letter n and the suggestion.
ReviewSolution(review, improvements, prioritized) ==
    <<"#", " ", "C", "o", "d", "e", " ", "R", "e", "v", "i", "e", "w", " ", "S", "u", "m", "m", "a", "r", "y", "\n", "\n", "#", "#", " ", "G", "e", "n", "e", "r", "a", "l", " ", "R", "e", "v", "i", "e", "w", "\n">> \o review
        \o <<"\n", "\n", "#", "#", " ", "S", "p", "e", "c", "i", "f", "i", "c", " ", "I", "m", "p", "r", "o", "v", "e", "m", "e", "n", "t", "s", "\n">> \o improvements
        \o <<"\n", "\n", "#", "#", " ", "P", "r", "i", "o", "r", "i", "t", "i", "z", "e", "d", " ", "S", "u", "g", "g", "e", "s", "t", "i", "o", "n", "s", "\n">>
        \o Join([i \in 1..Len(prioritized) |-> <<"\\", "n">> \o prioritized[i]],
                <<>>)
        \o NEWLINE

\* Lines 310-315: the greeting response.
GreetingDescriptions ==
    { <<"h", "i">>,
      <<"h", "e", "l", "l", "o">>,
      <<"t", "e", "s", "t">> }

GreetingResponse ==
    CodeResponse(
        <<WAVE>> \o <<" ", "H", "e", "l", "l", "o", "!", " ", "I", "'", "m", " ", "C", "o", "d", "i", ",", " ", "y", "o", "u", "r", " ", "A", "I", " ", "s", "e", "n", "i", "o", "r", " ", "s", "o", "f", "t", "w", "a", "r", "e", " ", "d", "e", "v", "e", "l", "o", "p", "e", "r", ".", " ", "I", "'", "m", " ", "c", "u", "r", "r", "e", "n", "t", "l", "y", " ", "w", "o", "r", "k", "i", "n", "g", " ", "i", "n", " ", "t", "h", "e", " ">>
            \o PROJECT_NAME
            \o <<" ", "p", "r", "o", "j", "e", "c", "t", " ", "a", "n", "d", " ", "h", "a", "v", "e", " ", "f", "u", "l", "l", " ", "a", "c", "c", "e", "s", "s", " ", "t", "o", " ", "t", "h", "e", " ", "c", "o", "d", "e", "b", "a", "s", "e", ".", " ", "L", "e", "t", "'", "s", " ", "w", "r", "i", "t", "e", " ", "s", "o", "m", "e", " ", "e", "x", "c", "e", "l", "l", "e", "n", "t", " ", "c", "o", "d", "e", " ", "t", "o", "g", "e", "t", "h", "e", "r", ".">>,
        <<"G", "r", "e", "e", "t", "i", "n", "g", " ", "m", "e", "s", "s", "a", "g", "e">>, None, None)

\* Lines 330-337: an error returned as a CodeResponse.
ErrorResponse(e) ==
    CodeResponse(<<"E", "r", "r", "o", "r", " ", "p", "r", "o", "c", "e", "s", "s", "i", "n", "g", " ", "t", "a", "s", "k", ":", " ">> \o e,
                 <<"A", "n", " ", "e", "r", "r", "o", "r", " ", "o", "c", "c", "u", "r", "r", "e", "d">>, None, None)

\* Lines 367, 421, 503: the message of the exception a task method raises.
TaskFailureText(task_type, e) ==
    IF task_type = ANALYZE THEN <<"E", "r", "r", "o", "r", " ", "d", "u", "r", "i", "n", "g", " ", "c", "o", "d", "e", " ", "a", "n", "a", "l", "y", "s", "i", "s", ":", " ">> \o e
    ELSE IF task_type = GENERATE THEN <<"E", "r", "r", "o", "r", " ", "d", "u", "r", "i", "n", "g", " ", "c", "o", "d", "e", " ", "g", "e", "n", "e", "r", "a", "t", "i", "o", "n", ":", " ">> \o e
    ELSE <<"E", "r", "r", "o", "r", " ", "d", "u", "r", "i", "n", "g", " ", "c", "o", "d", "e", " ", "r", "e", "v", "i", "e", "w", ":", " ">> \o e

\* Line 329: the message of the ValueError for a kind with no method.
UnknownTaskText(task_type) == <<"U", "n", "k", "n", "o", "w", "n", " ", "t", "a", "s", "k", " ", "t", "y", "p", "e", ":", " ">> \o task_type

\* The explanation each task method is decorated with (lines 339, 369, 423).
Explanation(task_type) ==
    IF task_type = ANALYZE THEN "Analyzing code in workspace"
    ELSE IF task_type = GENERATE THEN "Generating new code"
    ELSE "Reviewing code"

\* How many completion calls a task method makes.
CallsOf(task_type) == IF task_type = ANALYZE THEN 1 ELSE 2

\* The three prompt builders (lines 505-620).  The fixed instruction text
\* around the rendered files and the description is shortened to a tag.
Prompt(task) ==
    (IF task.task_type = ANALYZE THEN <<"[", "a", "n", "a", "l", "y", "z", "e", "]">>
     ELSE IF task.task_type = GENERATE THEN <<"[", "g", "e", "n", "e", "r", "a", "t", "e", "]">>
     ELSE <<"[", "r", "e", "v", "i", "e", "w", "]">>)
        \o files_content(task.context.files)
        \o <<"T", "a", "s", "k", " ", "d", "e", "s", "c", "r", "i", "p", "t", "i", "o", "n", ":", " ">> \o task.description

\* The fixed system and follow-up instructions of the completion calls,
\* shortened to tags.
SystemText == <<"[", "s", "y", "s", "t", "e", "m", "]">>
FollowUpText == <<"[", "f", "o", "l", "l", "o", "w", "-", "u", "p", "]">>

\* The messages of the first completion call of a task method.
FirstRequest(task) ==
    << <<"system", SystemText>>, <<"user", Prompt(task)>> >>

\* A second call that asks its follow-up question without the first call's
\* output.
SecondRequest_WithoutFirstOutput(task, first_output) ==
    << <<"system", SystemText>>,
       <<"user", Prompt(task)>>,
       <<"user", FollowUpText>> >>

\* The messages of the second completion call (lines 396-404, 449-458).
SecondRequest(task, first_output) ==
    << <<"system", SystemText>>,
       <<"user", Prompt(task)>>,
       <<"assistant", first_output>>,
       <<"user", FollowUpText>> >>

\* The CodeResponse a task method returns from its completions' texts
\* (lines 360-364, 413-418, 464-500).
TaskResponse(task_type, first, second) ==
    IF task_type = ANALYZE
    THEN CodeResponse(first, <<"C", "o", "d", "e", " ", "a", "n", "a", "l", "y", "s", "i", "s", " ", "c", "o", "m", "p", "l", "e", "t", "e", "d", " ", "s", "u", "c", "c", "e", "s", "s", "f", "u", "l", "l", "y">>,
                      extract_suggestions(first), None)
    ELSE IF task_type = GENERATE
    THEN CodeResponse(first, second, extract_suggestions(second),
                      parse_code_changes(first))
    ELSE LET prioritized ==
                 prioritized_suggestions(
                     extract_suggestions(first \o NEWLINE \o second))
         IN  CodeResponse(
                 ReviewSolution(first, second, prioritized),
                 <<"C", "o", "d", "e", " ", "r", "e", "v", "i", "e", "w", " ", "c", "o", "m", "p", "l", "e", "t", "e", "d", " ", "w", "i", "t", "h", " ", "d", "e", "t", "a", "i", "l", "e", "d", " ", "a", "n", "a", "l", "y", "s", "i", "s", " ", "a", "n", "d", " ", "s", "u", "g", "g", "e", "s", "t", "i", "o", "n", "s">>,
                 prioritized, parse_code_changes(second))

\* Line 239: the text a failed turn returns.
ErrorMessage(e) ==
    <<"I", " ", "e", "n", "c", "o", "u", "n", "t", "e", "r", "e", "d", " ", "a", " ", "t", "e", "c", "h", "n", "i", "c", "a", "l", " ", "i", "s", "s", "u", "e", ":", " ">> \o e
        \o <<".", " ", "I", "'", "l", "l", " ", "a", "d", "j", "u", "s", "t", " ", "m", "y", " ", "a", "p", "p", "r", "o", "a", "c", "h", " ", "t", "o", " ", "r", "e", "s", "o", "l", "v", "e", " ", "t", "h", "i", "s", ".">>

\* Lines 203 and 228: the reply, a blank line, the second text.
Combined(assistant_message, text) ==
    assistant_message \o NEWLINE \o NEWLINE \o text

\* Line 233: the reply followed by the scan's error.
ScanErrorText(assistant_message, e) ==
    assistant_message
        \o <<"\n", "\n", "I", " ", "e", "n", "c", "o", "u", "n", "t", "e", "r", "e", "d", " ", "a", "n", " ", "e", "r", "r", "o", "r", " ", "w", "h", "i", "l", "e", " ", "c", "h", "e", "c", "k", "i", "n", "g", " ", "t", "h", "e", " ", "f", "i", "l", "e", "s", ":", " ">> \o e

\* Line 208: the words that ask for a workspace scan.
FileKeywords ==
    << <<"f", "i", "l", "e">>,
       <<"d", "i", "r", "e", "c", "t", "o", "r", "y">>,
       <<"f", "o", "l", "d", "e", "r">>,
       <<"r", "e", "p", "o">>,
       <<"r", "e", "p", "o", "s", "i", "t", "o", "r", "y">>,
       <<"c", "o", "u", "n", "t">> >>

(***************************************************************************)
(* The chat turn and the two front ends: agent.py chat, process_task,      *)
(* workflow_logger.py log_workflow, cli.py, slack_bot.py                   *)
(*                                                                         *)
(* The front ends run as coroutines of one event loop.  An action is the   *)
(* code a coroutine runs between two suspensions.  click.prompt does not   *)
(* suspend: while the command prompt waits for input the loop runs         *)
(* nothing else.                                                           *)
(***************************************************************************)

VARIABLES
    pc,                    \* per front end: where its coroutine is suspended
    current_conversation,  \* agent.chat_memory.current_conversation
    workflow_logger,       \* agent.workflow_logger: step_count, active_tasks
    current_context,       \* agent.current_context
    loc,                   \* per front end: the locals of its chat() call
    awaited,               \* per front end: the asyncio task its call polls
    hist                   \* per front end: what its latest turn has done

chatVars == <<pc, current_conversation, workflow_logger, current_context,
              loc, awaited, hist>>

\* interactive_chat (cli.py) and handle_mention (slack_bot.py)
Procs == {"cli", "slack"}

\* The source tag each front end passes to chat().
SourceOf(p) == IF p = "cli" THEN "cli" ELSE "slack"

\* Where a front end rests between turns: the command prompt blocks in
\* click.prompt, the gateway has no mention to handle.
Rest(p) == IF p = "cli" THEN "prompt" ELSE "idle"

\* The event loop can run a coroutine: the command prompt is not blocking
\* the thread in click.prompt.
LoopFree == pc["cli"] # "prompt"

\* chat() has been entered by the front end and has not returned.
InTurn(p) == pc[p] \in {"await_api", "await_task", "await_scan"}

\* The most turns the two front ends start in all.
MaxTurns == 2

\* How many turns have been started.
TurnsStarted == hist["cli"].turn_no + hist["slack"].turn_no

\* time.time() is counted in ticks of the polling sleep, 0.1 s (lines 181,
\* 221, workflow_logger.py line 86); a heartbeat is due 2.0 s after the last
\* update (lines 177, 217, workflow_logger.py line 82).
HeartbeatTicks == 20

\* The time between two polls that are told apart, in ticks.  An iteration
\* at which no heartbeat is due changes nothing but the clock, so a run of
\* such iterations counts as one poll, half a heartbeat interval long; a
\* sleep during which the loop was kept busy can last a whole interval.
SleepTicks == {HeartbeatTicks \div 2, HeartbeatTicks}

\* current_time - last_update after d more ticks; beyond the heartbeat
\* interval the exact age makes no difference.
Aged(age, d) == IF age + d >= HeartbeatTicks THEN HeartbeatTicks ELSE age + d

\* The inbound messages: conversation, a generate task that also holds a
\* word asking for a workspace scan, a request for a workspace scan.
ChatMessages ==
    { <<"h", "e", "l", "l", "o">>,
      <<"w", "r", "i", "t", "e", " ", "f", "i", "l", "e">>,
      <<"c", "o", "u", "n", "t", " ", "f", "i", "l", "e", "s">> }

\* What the completion backend answers: a text, a response with no usable
\* choice, or an error.
BackendTexts ==
    { <<"y", "o", "u", " ", "s", "h", "o", "u", "l", "d", "\n", "F", "i", "l", "e", ":", " ", "a", ".", "p", "y", "\n", "x">> }

BackendErrors == { <<"r", "a", "t", "e", " ", "l", "i", "m", "i", "t">> }

MALFORMED == <<"l", "i", "s", "t", " ", "i", "n", "d", "e", "x", " ", "o", "u", "t", " ", "o", "f", " ", "r", "a", "n", "g", "e">>

CompletionOutcomes ==
    {[kind |-> "text", text |-> t] : t \in BackendTexts}
        \cup {[kind |-> "malformed", text |-> MALFORMED]}
        \cup {[kind |-> "error", text |-> e] : e \in BackendErrors}

\* What the backend answers a task method: a text or an error.
TaskOutcomes == {o \in CompletionOutcomes : o.kind # "malformed"}

\* The failure that context building can raise.
CONTEXT_ERROR == <<"n", "o", "t", " ", "J", "S", "O", "N", " ", "s", "e", "r", "i", "a", "l", "i", "z", "a", "b", "l", "e">>

\* What the workspace scan finds, and the failure it can raise.
ScanSummary == <<"R", "e", "p", "o", "s", "i", "t", "o", "r", "y", " ", "S", "t", "a", "t", "i", "s", "t", "i", "c", "s", ":", "\n", "-", " ", "T", "o", "t", "a", "l", " ", "f", "i", "l", "e", "s", ":", " ", "1", "\n", "-", " ", "T", "o", "t", "a", "l", " ", "d", "i", "r", "e", "c", "t", "o", "r", "i", "e", "s", ":", " ", "0", "\n", "\n", "F", "i", "l", "e", " ", "t", "y", "p", "e", "s", ":", "\n", "-", " ", ".", "p", "y", ":", " ", "1", " ", "f", "i", "l", "e", "s", "\n">>
SCAN_ERROR == <<"p", "e", "r", "m", "i", "s", "s", "i", "o", "n", " ", "d", "e", "n", "i", "e", "d">>

\* The source files _create_context_from_workspace reads (lines 282-304).
WorkspaceFiles == << << <<"a", ".", "p", "y">>, <<"x">> >> >>
WorkspaceContext == [files |-> WorkspaceFiles, project_root |-> WORKSPACE_PATH]

\* CodingTask(task_type, description, context)
CodingTask(task_type, description, context) ==
    [task_type |-> task_type, description |-> description, context |-> context]

NoTask == CodingTask(None, <<>>, [files |-> <<>>, project_root |-> None])

\* The locals of a chat() call: message, source, the age of last_update
\* (of the wrapper's last_update while the wrapper waits), assistant_message,
\* the task; and, as history, the reporter's stack as the wrapper of the
\* task method found it.
NoLocals ==
    [message |-> <<>>, source |-> "none", age |-> 0,
     assistant_message |-> None, task |-> NoTask, entry |-> <<>>]

\* No asyncio task is awaited.
NotAwaiting ==
    [kind |-> "none", state |-> "done", stage |-> "none", first |-> None,
     value |-> None, requests |-> <<>>]

\* asyncio.create_task(...): the task exists and has not run.
CreatedTask(kind, requests) ==
    [kind |-> kind, state |-> "pending", stage |-> "created", first |-> None,
     value |-> None, requests |-> requests]

\* A polling loop that never tests its task.
StillWaiting_Always(a) == TRUE

\* `not task.done()`, the condition of the three polling loops.
StillWaiting(a) == a.state = "pending"

\* Lines 127-158: the messages of the turn's completion call.  The two
\* fixed system prompts are shortened to one tag.
BuildRequest(context, recent_messages) ==
    << <<"system", SystemText>> >>
        \o (IF DOMAIN context # {} THEN << <<"system", context>> >> ELSE <<>>)
        \o [i \in 1..Len(recent_messages) |->
               <<recent_messages[i].role, recent_messages[i].content>>]

\* The reporter and the acting turn's history, as the reporter's methods
\* take them.
Env(p) == [lg |-> workflow_logger, g |-> hist[p]]

\* A return that appends what it returns to the conversation.
Return_RecordsResult(p, e, conv, text, outcome) ==
    /\ pc' = [pc EXCEPT ![p] = Rest(p)]
    /\ current_conversation' =
           add_message(conv, "assistant", text, [source |-> SourceOf(p)])
    /\ workflow_logger' = e.lg
    /\ hist' = [hist EXCEPT ![p] = [e.g EXCEPT !.outcome = outcome,
                                               !.response = text]]
    /\ loc' = [loc EXCEPT ![p] = NoLocals]
    /\ awaited' = [awaited EXCEPT ![p] = NotAwaiting]

\* chat() returns text: the front end delivers it and rests.
Return(p, e, conv, text, outcome) ==
    /\ pc' = [pc EXCEPT ![p] = Rest(p)]
    /\ current_conversation' = conv
    /\ workflow_logger' = e.lg
    /\ hist' = [hist EXCEPT ![p] = [e.g EXCEPT !.outcome = outcome,
                                               !.response = text]]
    /\ loc' = [loc EXCEPT ![p] = NoLocals]
    /\ awaited' = [awaited EXCEPT ![p] = NotAwaiting]

\* A handler that returns the error text and records nothing.
HandleFailure_Unrecorded(p, e, conv, source, err) ==
    Return(p, [e EXCEPT !.g.raised = err], conv, ErrorMessage(err), "error")

\* Lines 238-242: the handler of the turn's outer try, entered with the
\* failure the try raised.
HandleFailure(p, e0, conv, source, err) ==
    LET e == [e0 EXCEPT !.g.raised = err]
        error_message == ErrorMessage(err)
        conv1 == add_message(conv, "assistant", error_message,
                             [source |-> source])
        e1 == log_result([e EXCEPT !.g.asst_at = Len(conv1.messages)], FALSE)
    IN  Return(p, e1, conv1, error_message, "error")

\* Lines 107-181: chat() from its entry to the first sleep of the
\* completion wait, or to its return if context building fails.
ChatBegin(p, message, fails) ==
    LET source == SourceOf(p)
        e1 == reset([lg |-> workflow_logger,
                     g |-> NewHistory(hist[p].turn_no + 1)])
        e2 == log_step(e1, "Starting new conversation")
        fresh == ~current_conversation.active
        e3 == IF fresh THEN log_step(e2, "Initializing conversation context")
              ELSE e2
        conv1 == IF fresh THEN start_conversation(WORKSPACE_PATH)
                 ELSE current_conversation
        conv2 == add_message(conv1, "user", message, [source |-> source])
        e4 == log_step([e3 EXCEPT !.g.user_at = Len(conv2.messages)],
                       "Preparing conversation context")
        context == get_conversation_context(conv2)
        recent_messages == get_recent_messages(conv2, DefaultLimit)
        e5 == log_step(e4, "Building conversation history")
        e6 == log_step(e5, "Thinking about response")
    IN  IF fails
        THEN /\ HandleFailure(p, e5, conv2, source, CONTEXT_ERROR)
             /\ UNCHANGED current_context
        ELSE /\ pc' = [pc EXCEPT ![p] = "await_api"]
             /\ current_conversation' = conv2
             /\ workflow_logger' = e6.lg
             /\ hist' = [hist EXCEPT ![p] = e6.g]
             /\ loc' = [loc EXCEPT ![p] =
                          [NoLocals EXCEPT !.message = message,
                                           !.source = source]]
             /\ awaited' = [awaited EXCEPT ![p] =
                              [CreatedTask("api",
                                  <<BuildRequest(context, recent_messages)>>)
                                EXCEPT !.stage = "call1"]]
             /\ UNCHANGED current_context

\* cli.py lines 62-70: the user enters a line at the prompt and the loop
\* calls agent.chat(user_input).
CliSubmit(message, fails) ==
    /\ pc["cli"] = "prompt"
    /\ TurnsStarted < MaxTurns
    /\ ChatBegin("cli", message, fails)

\* slack_bot.py lines 71-82: a mention arrives and the handler calls
\* app.agent.chat(text, source="slack").
SlackMention(message, fails) ==
    /\ pc["slack"] = "idle"
    /\ LoopFree
    /\ TurnsStarted < MaxTurns
    /\ ChatBegin("slack", message, fails)

\* The completion backend answers the turn's call: the asyncio task is done.
ApiCompletes(p, outcome) ==
    /\ LoopFree
    /\ awaited[p].kind = "api"
    /\ awaited[p].state = "pending"
    /\ awaited' = [awaited EXCEPT ![p] =
                     [@ EXCEPT !.state = IF outcome.kind = "error"
                                         THEN "failed" ELSE "done",
                               !.stage = "finished",
                               !.value = IF outcome.kind = "malformed"
                                         THEN None ELSE outcome.text]]
    /\ UNCHANGED <<pc, current_conversation, workflow_logger,
                   current_context, loc, hist>>

\* One iteration of a polling loop whose task is pending, after a sleep of
\* d ticks: a heartbeat if one is due, then the next sleep (lines 175-181;
\* workflow_logger.py lines 80-86).
PollPending(p, d) ==
    LET age1 == Aged(loc[p].age, d)
        due == age1 >= HeartbeatTicks
        e1 == IF due THEN log_working(Env(p), awaited[p].state) ELSE Env(p)
    IN  /\ LoopFree
        /\ StillWaiting(awaited[p])
        /\ loc' = [loc EXCEPT ![p].age = IF due THEN 0 ELSE age1]
        /\ workflow_logger' = e1.lg
        /\ hist' = [hist EXCEPT ![p] = e1.g]
        /\ UNCHANGED <<pc, current_conversation, current_context, awaited>>

\* The completion wait polls and finds the call pending.
ChatPollPending(p, d) == pc[p] = "await_api" /\ PollPending(p, d)

\* A turn that calls the classifier before it looks at the completion.
ChatReplyFailed_ClassifiesFirst(p) ==
    /\ pc[p] = "await_api"
    /\ LoopFree
    /\ ~StillWaiting(awaited[p])
    /\ awaited[p].state = "failed" \/ awaited[p].value = None
    /\ HandleFailure(p, Noted(Env(p), "classify"), current_conversation,
                     loc[p].source,
                     IF awaited[p].state = "failed" THEN awaited[p].value
                     ELSE MALFORMED)
    /\ UNCHANGED current_context

\* Lines 184-188 fail: `await api_task` raises the backend's error, or the
\* response has no usable choice; the outer handler runs.
ChatReplyFailed(p) ==
    /\ pc[p] = "await_api"
    /\ LoopFree
    /\ ~StillWaiting(awaited[p])
    /\ awaited[p].state = "failed" \/ awaited[p].value = None
    /\ HandleFailure(p, Env(p), current_conversation, loc[p].source,
                     IF awaited[p].state = "failed" THEN awaited[p].value
                     ELSE MALFORMED)
    /\ UNCHANGED current_context

\* The completion wait is over and the reply is usable (lines 184-188).
ReplyArrived(p) ==
    /\ pc[p] = "await_api"
    /\ LoopFree
    /\ ~StillWaiting(awaited[p])
    /\ awaited[p].state = "done"
    /\ awaited[p].value # None

\* Line 188: the reply is recorded.
WithReply(p) ==
    add_message(current_conversation, "assistant", awaited[p].value,
                [source |-> loc[p].source])

\* The reporter and history once the reply is recorded.
EnvWithReply(p) ==
    Noted([Env(p) EXCEPT !.g.asst_at = Len(WithReply(p).messages)], "reply")

\* The reporter and history once line 191 has called the classifier.
EnvClassified(p) == Noted(EnvWithReply(p), "classify")

\* Lines 190-191: task_type = self._identify_task_type(message)
TaskTypeOf(p) == identify_task_type(loc[p].message)

\* Line 208: the message asks for a workspace scan.
AsksForScan(p) == AnyIn(FileKeywords, Lower(loc[p].message))

\* Lines 184-205, 306-329 and workflow_logger.py lines 64-86: the message is
\* a task; process_task dispatches to the decorated task method, whose
\* wrapper logs its step, creates the task and sleeps.  A greeting or an
\* unknown kind returns from process_task at once.
ChatReplyTask(p) ==
    LET assistant_message == awaited[p].value
        task_type == TaskTypeOf(p)
        task == CodingTask(task_type, loc[p].message, WorkspaceContext)
        e1 == log_step(Noted(EnvClassified(p), "task"),
                       "Identified task type")
        immediate ==
            IF Lower(task.description) \in GreetingDescriptions
            THEN GreetingResponse
            ELSE ErrorResponse(UnknownTaskText(task_type))
    IN  /\ ReplyArrived(p)
        /\ Truthy(task_type)
        /\ IF Lower(task.description) \in GreetingDescriptions
              \/ task_type \notin {ANALYZE, GENERATE, REVIEW}
           THEN /\ Return(p, log_step(e1, "Task completed"), WithReply(p),
                          Combined(assistant_message, immediate.solution),
                          "task")
                /\ current_context' =
                       IF Lower(task.description) \in GreetingDescriptions
                       THEN current_context ELSE task.context
           ELSE LET e2 == log_step(e1, Explanation(task_type))
                IN  /\ pc' = [pc EXCEPT ![p] = "await_task"]
                    /\ current_conversation' = WithReply(p)
                    /\ current_context' = task.context
                    /\ workflow_logger' = e2.lg
                    /\ hist' = [hist EXCEPT ![p] = e2.g]
                    /\ loc' = [loc EXCEPT ![p].assistant_message = assistant_message,
                                          ![p].task = task,
                                          ![p].age = 0,
                                          ![p].entry = e1.lg.active_tasks]
                    /\ awaited' = [awaited EXCEPT ![p] = CreatedTask("task", <<>>)]

\* A scan branch that is taken whether or not the message is a task.
ChatReplyScan_IgnoresTask(p, d) ==
    LET e1 == log_step(Noted(EnvClassified(p), "scan"),
                       "File operation requested")
        age1 == Aged(loc[p].age, d)
        due == age1 >= HeartbeatTicks
        e2 == IF due THEN log_working(e1, "pending") ELSE e1
    IN  /\ ReplyArrived(p)
        /\ AsksForScan(p)
        /\ pc' = [pc EXCEPT ![p] = "await_scan"]
        /\ current_conversation' = WithReply(p)
        /\ workflow_logger' = e2.lg
        /\ hist' = [hist EXCEPT ![p] = e2.g]
        /\ loc' = [loc EXCEPT ![p].assistant_message = awaited[p].value,
                              ![p].age = IF due THEN 0 ELSE age1]
        /\ awaited' = [awaited EXCEPT ![p] = CreatedTask("scan", <<>>)]
        /\ UNCHANGED current_context

\* Lines 208-221: the message is no task and asks for a scan; the scan task
\* is created and the scan wait makes its first iteration, d ticks after
\* the completion wait went to sleep.
ChatReplyScan(p, d) ==
    LET e1 == log_step(Noted(EnvClassified(p), "scan"),
                       "File operation requested")
        age1 == Aged(loc[p].age, d)
        due == age1 >= HeartbeatTicks
        e2 == IF due THEN log_working(e1, "pending") ELSE e1
    IN  /\ ReplyArrived(p)
        /\ ~Truthy(TaskTypeOf(p))
        /\ AsksForScan(p)
        /\ pc' = [pc EXCEPT ![p] = "await_scan"]
        /\ current_conversation' = WithReply(p)
        /\ workflow_logger' = e2.lg
        /\ hist' = [hist EXCEPT ![p] = e2.g]
        /\ loc' = [loc EXCEPT ![p].assistant_message = awaited[p].value,
                              ![p].age = IF due THEN 0 ELSE age1]
        /\ awaited' = [awaited EXCEPT ![p] = CreatedTask("scan", <<>>)]
        /\ UNCHANGED current_context

\* Lines 235-236: the message is plain conversation.
ChatReplyConversation(p) ==
    /\ ReplyArrived(p)
    /\ ~Truthy(TaskTypeOf(p))
    /\ ~AsksForScan(p)
    /\ Return(p, log_step(EnvClassified(p), "Response ready"), WithReply(p),
              awaited[p].value, "reply")
    /\ UNCHANGED current_context

\* The task method starts to run and issues its first completion call
\* (lines 344-354, 374-388, 428-442).
TaskRuns(p) ==
    /\ LoopFree
    /\ awaited[p].kind = "task"
    /\ awaited[p].stage = "created"
    /\ awaited' = [awaited EXCEPT ![p].stage = "call1",
                                  ![p].requests = <<FirstRequest(loc[p].task)>>]
    /\ UNCHANGED <<pc, current_conversation, workflow_logger,
                   current_context, loc, hist>>

\* The backend answers a completion call of the task method, which issues
\* its second call, returns its CodeResponse, or raises.
TaskCallCompletes(p, outcome) ==
    LET a == awaited[p]
        task == loc[p].task
        again == a.stage = "call1" /\ CallsOf(task.task_type) = 2
    IN  /\ LoopFree
        /\ a.kind = "task"
        /\ a.stage \in {"call1", "call2"}
        /\ awaited' = [awaited EXCEPT ![p] =
              IF outcome.kind # "text"
              THEN [a EXCEPT !.state = "failed", !.stage = "finished",
                             !.value = TaskFailureText(task.task_type,
                                                       outcome.text)]
              ELSE IF again
              THEN [a EXCEPT !.stage = "call2", !.first = outcome.text,
                             !.requests = Append(@, SecondRequest(task,
                                                        outcome.text))]
              ELSE [a EXCEPT !.state = "done", !.stage = "finished",
                             !.value =
                                IF a.stage = "call1"
                                THEN TaskResponse(task.task_type,
                                                  outcome.text, None)
                                ELSE TaskResponse(task.task_type, a.first,
                                                  outcome.text)]]
        /\ UNCHANGED <<pc, current_conversation, workflow_logger,
                       current_context, loc, hist>>

\* The wrapper's wait polls and finds the task method pending.
WrapperPollPending(p, d) == pc[p] = "await_task" /\ PollPending(p, d)

\* workflow_logger.py lines 88-92, then lines 200-205: the task method has
\* returned; the wrapper pops its step and chat() returns the combined text.
WrapperTaskDone(p) ==
    LET e1 == log_result(Env(p), TRUE)
        e2 == log_step(e1, "Task completed")
    IN  /\ pc[p] = "await_task"
        /\ LoopFree
        /\ ~StillWaiting(awaited[p])
        /\ awaited[p].state = "done"
        /\ Return(p, e2, current_conversation,
                  Combined(loc[p].assistant_message, awaited[p].value.solution),
                  "task")
        /\ UNCHANGED current_context

\* workflow_logger.py lines 94-96, then lines 330-337 and 200-205: the task
\* method has raised; the wrapper pops its step and re-raises, process_task
\* turns the error into a CodeResponse, chat() returns the combined text.
WrapperTaskFailed(p) ==
    LET e1 == log_result(Env(p), FALSE)
        e2 == log_step(e1, "Task completed")
    IN  /\ pc[p] = "await_task"
        /\ LoopFree
        /\ ~StillWaiting(awaited[p])
        /\ awaited[p].state = "failed"
        /\ Return(p, e2, current_conversation,
                  Combined(loc[p].assistant_message,
                           ErrorResponse(awaited[p].value).solution),
                  "task_failed")
        /\ UNCHANGED current_context

\* Lines 681-721: _handle_file_operation runs, from its step to its result.
\* It never suspends, and it is ready to run before the scan wait's first
\* sleep ends: the wait finds it done at its second test.
FileTaskRuns(p, ok) ==
    LET e1 == log_step(Env(p), "Starting file operation")
        e2 == log_result(e1, ok)
    IN  /\ LoopFree
        /\ awaited[p].kind = "scan"
        /\ awaited[p].stage = "created"
        /\ awaited' = [awaited EXCEPT ![p].stage = "finished",
                                      ![p].state = IF ok THEN "done" ELSE "failed",
                                      ![p].value = IF ok THEN ScanSummary
                                                   ELSE SCAN_ERROR]
        /\ workflow_logger' = e2.lg
        /\ hist' = [hist EXCEPT ![p] = e2.g]
        /\ UNCHANGED <<pc, current_conversation, current_context, loc>>

\* Lines 224-229: the scan has returned its summary.
ScanDone(p) ==
    /\ pc[p] = "await_scan"
    /\ LoopFree
    /\ ~StillWaiting(awaited[p])
    /\ awaited[p].state = "done"
    /\ Return(p, log_result(Env(p), TRUE), current_conversation,
              Combined(loc[p].assistant_message, awaited[p].value), "scan")
    /\ UNCHANGED current_context

\* A scan failure that is left to the handler of the turn's outer try.
ScanFailed_Propagates(p) ==
    /\ pc[p] = "await_scan"
    /\ LoopFree
    /\ ~StillWaiting(awaited[p])
    /\ awaited[p].state = "failed"
    /\ HandleFailure(p, log_result(Env(p), FALSE), current_conversation,
                     loc[p].source, awaited[p].value)
    /\ UNCHANGED current_context

\* Lines 231-233: the scan has raised; the inner handler reports it.
ScanFailed(p) ==
    /\ pc[p] = "await_scan"
    /\ LoopFree
    /\ ~StillWaiting(awaited[p])
    /\ awaited[p].state = "failed"
    /\ Return(p, log_result(Env(p), FALSE), current_conversation,
              ScanErrorText(loc[p].assistant_message, awaited[p].value),
              "scan_failed")
    /\ UNCHANGED current_context

\* CodiAgent.__init__ (lines 42-69): the workspace is detected and put into
\* the context, which creates the conversation; then cli.py start_services:
\* the command prompt waits for input, the gateway has no mention.
ChatInit ==
    /\ pc = [p \in Procs |-> Rest(p)]
    /\ current_conversation =
          update_context(NoConversation,
              Put(Put(EmptyDict, <<"w", "o", "r", "k", "s", "p", "a", "c", "e", "_", "p", "a", "t", "h">>, WORKSPACE_PATH),
                  <<"p", "r", "o", "j", "e", "c", "t", "_", "n", "a", "m", "e">>, PROJECT_NAME))
    /\ workflow_logger = NewLogger
    /\ current_context = None
    /\ loc = [p \in Procs |-> NoLocals]
    /\ awaited = [p \in Procs |-> NotAwaiting]
    /\ hist = [p \in Procs |-> [NewHistory(0) EXCEPT !.outcome = "none"]]

ChatIdle ==
    /\ pc = [p \in Procs |-> "off"]
    /\ current_conversation = NoConversation
    /\ workflow_logger = NewLogger
    /\ current_context = None
    /\ loc = [p \in Procs |-> NoLocals]
    /\ awaited = [p \in Procs |-> NotAwaiting]
    /\ hist = [p \in Procs |-> [NewHistory(0) EXCEPT !.outcome = "none"]]

(***************************************************************************)
(* The conversation store called on its own: chat.py, class ChatMemory     *)
(*                                                                         *)
(* Any caller, any order of calls.  s_prev, s_call, s_base and s_added are *)
(* history: the store keeps no such record.                                *)
(***************************************************************************)

VARIABLES
    s_conv,    \* ChatMemory.current_conversation
    s_ret,     \* what the last call returned
    s_prev,    \* current_conversation before the last call
    s_call,    \* the last call: its name and arguments
    s_base,    \* the history before the add_message calls being counted
    s_added    \* the messages those calls added, in call order

storeVars == <<s_conv, s_ret, s_prev, s_call, s_base, s_added>>

\* The most messages a history is grown to.
MaxMessages == 3

\* The arguments the calls are made with.
StoreRoles == {"user", "assistant"}
StoreContents == { <<"a">>, <<"b">> }
StoreLimits == (0..(MaxMessages + 1)) \cup {DefaultLimit}
ContextKeys == { <<"a", "c", "t", "i", "v", "e", "_", "f", "i", "l", "e">>, <<"w", "o", "r", "k", "s", "p", "a", "c", "e", "_", "p", "a", "t", "h">> }
ContextValues == { <<"a">>, <<"b">> }
ContextUpdates == UNION {[K -> ContextValues] : K \in SUBSET ContextKeys}

\* A call and its arguments; the arguments a call does not take are blank.
Call(name, role, content, limit, updates) ==
    [name |-> name, role |-> role, content |-> content, limit |-> limit,
     updates |-> updates]

\* ChatMemory.clear_conversation
clear_conversation(conv) == NoConversation

\* What every call does besides its own effect: the history is recorded.
Called(call, ret) ==
    /\ s_prev' = s_conv
    /\ s_call' = call
    /\ s_ret' = ret

\* A start_conversation that keeps a conversation that is already there.
StartConversation_KeepsCurrent ==
    /\ s_conv' = IF s_conv.active THEN s_conv
                 ELSE start_conversation(WORKSPACE_PATH)
    /\ Called(Call("start_conversation", "", <<>>, 0, EmptyDict), s_conv')
    /\ s_base' = <<>>
    /\ s_added' = <<>>

\* start_conversation(workspace_path)
StartConversation ==
    /\ s_conv' = start_conversation(WORKSPACE_PATH)
    /\ Called(Call("start_conversation", "", <<>>, 0, EmptyDict), s_conv')
    /\ s_base' = <<>>
    /\ s_added' = <<>>

\* add_message(role, content): returns the message it appended.  The
\* history may start a new count at any call on an active conversation
\* (mark): s_base is then the history the call found.
AddMessage(role, content, mark) ==
    /\ Len(s_conv.messages) < MaxMessages
    /\ s_conv' = add_message(s_conv, role, content, EmptyDict)
    /\ Called(Call("add_message", role, content, 0, EmptyDict),
              Message(role, content, EmptyDict))
    /\ s_base' = IF ~s_conv.active THEN <<>>
                 ELSE IF mark THEN s_conv.messages ELSE s_base
    /\ s_added' = Append(IF s_conv.active /\ ~mark THEN s_added ELSE <<>>,
                         Message(role, content, EmptyDict))

\* A get_recent_messages that creates the conversation it misses.
GetRecentMessages_Starts(limit) ==
    /\ s_conv' = IF s_conv.active THEN s_conv ELSE start_conversation(None)
    /\ Called(Call("get_recent_messages", "", <<>>, limit, EmptyDict),
              get_recent_messages(s_conv, limit))
    /\ UNCHANGED <<s_base, s_added>>

\* get_recent_messages(limit)
GetRecentMessages(limit) ==
    /\ s_conv' = s_conv
    /\ Called(Call("get_recent_messages", "", <<>>, limit, EmptyDict),
              get_recent_messages(s_conv, limit))
    /\ UNCHANGED <<s_base, s_added>>

\* get_conversation_context()
GetConversationContext ==
    /\ s_conv' = s_conv
    /\ Called(Call("get_conversation_context", "", <<>>, 0, EmptyDict),
              get_conversation_context(s_conv))
    /\ UNCHANGED <<s_base, s_added>>

\* update_context(updates): returns None.
UpdateContext(updates) ==
    /\ s_conv' = update_context(s_conv, updates)
    /\ Called(Call("update_context", "", <<>>, 0, updates), None)
    /\ s_base' = IF s_conv.active THEN s_base ELSE <<>>
    /\ s_added' = IF s_conv.active THEN s_added ELSE <<>>

\* clear_conversation()
ClearConversation ==
    /\ s_conv' = clear_conversation(s_conv)
    /\ Called(Call("clear_conversation", "", <<>>, 0, EmptyDict), None)
    /\ s_base' = <<>>
    /\ s_added' = <<>>

\* ChatMemory.__init__: no conversation.
StoreInit ==
    /\ s_conv = NoConversation
    /\ s_ret = None
    /\ s_prev = NoConversation
    /\ s_call = Call("__init__", "", <<>>, 0, EmptyDict)
    /\ s_base = <<>>
    /\ s_added = <<>>

StoreIdle == StoreInit

(***************************************************************************)
(* The progress reporter called on its own: workflow_logger.py             *)
(*                                                                         *)
(* Any caller, any order of calls.  w_prev and w_trace are history: the    *)
(* reporter keeps no such record.                                          *)
(***************************************************************************)

VARIABLES
    w_logger,  \* the WorkflowLogger: step_count and active_tasks
    w_prev,    \* the WorkflowLogger before the last call
    w_trace    \* the names of the calls since __init__ or the last reset()

loggerVars == <<w_logger, w_prev, w_trace>>

\* The most calls made between two resets.
MaxCalls == 4

\* The actions log_step is called with.
StepActions == {"X", "Y"}

\* The reporter's methods take the reporter with a turn's history; called
\* outside a turn, the history is a blank one and is dropped.
Alone(lg) == [lg |-> lg, g |-> NewHistory(0)]

\* What every call does besides its own effect: the history is recorded.
Logged(name) ==
    /\ w_prev' = w_logger
    /\ w_trace' = Append(w_trace, name)

\* log_step(action)
LogStep(action) ==
    /\ Len(w_trace) < MaxCalls
    /\ w_logger' = log_step(Alone(w_logger), action).lg
    /\ Logged("log_step")

\* log_working()
LogWorking ==
    /\ Len(w_trace) < MaxCalls
    /\ w_logger' = log_working(Alone(w_logger), "pending").lg
    /\ Logged("log_working")

\* log_result(success, message)
LogResult(success) ==
    /\ Len(w_trace) < MaxCalls
    /\ w_logger' = log_result(Alone(w_logger), success).lg
    /\ Logged("log_result")

\* reset()
LogReset ==
    /\ w_logger' = reset(Alone(w_logger)).lg
    /\ w_prev' = w_logger
    /\ w_trace' = <<>>

\* WorkflowLogger.__init__
LoggerInit ==
    /\ w_logger = NewLogger
    /\ w_prev = NewLogger
    /\ w_trace = <<>>

LoggerIdle == LoggerInit

(***************************************************************************)
(* The clock of one turn's polling loops: agent.py lines 162-181 and       *)
(* 207-221, workflow_logger.py lines 72-86                                 *)
(*                                                                         *)
(* time.time() in ticks of 0.1 s.  A turn polls its completion call, then  *)
(* returns, or polls the one wrapped task method, or polls the workspace   *)
(* scan.  k_since, k_count, k_total, k_exact, k_pending and k_late are     *)
(* history.                                                                *)
(***************************************************************************)

VARIABLES
    k_pc,       \* the loop the turn is in: "api", "wrapper", "scan"
    k_age,      \* current_time - last_update at the loop's next check
    k_left,     \* ticks until the awaited operation is done
    k_pending,  \* ticks the awaited operation stays pending in all
    k_count,    \* heartbeats the loop has emitted
    k_total,    \* heartbeats the turn has emitted
    k_since,    \* ticks since the turn's last heartbeat, -1 before the first
    k_exact,    \* every sleep of the loop lasted exactly one tick
    k_late      \* ticks the awaited operation had been done for when the
                \* loop's sleep ended

pollVars ==
    <<k_pc, k_age, k_left, k_pending, k_count, k_total, k_since, k_exact,
      k_late>>

\* asyncio.sleep(0.1): ticks in a second.
TicksPerSecond == 10

\* The longest an awaited operation stays pending, in ticks.
MaxPending == 50

FiveSeconds == 5 * TicksPerSecond

\* How long the awaited operations stay pending.
PendingChoices == 1..MaxPending

\* How long a sleep of 0.1 s lasts: asyncio.sleep returns no earlier than
\* asked and later when the loop is busy.
PollSleeps == {1, 2}

\* Time that passes between the end of the completion wait and the start
\* of the next loop; no await lies between them.
BetweenTicks == {0, 1}

\* A condition that lets a heartbeat through after half the interval.
HeartbeatDue_Halved(age) == age >= HeartbeatTicks \div 2

\* `current_time - last_update >= 2.0`
HeartbeatDue(age) == age >= HeartbeatTicks

\* The time since the last heartbeat after d more ticks.
Since(since, d) == IF since = -1 THEN -1 ELSE Aged(since, d)

\* An iteration that emits the heartbeat and leaves last_update as it was.
PollIteration_KeepsLastUpdate(d) ==
    LET due == HeartbeatDue(k_age)
    IN  /\ k_pc \in {"api", "wrapper", "scan"}
        /\ k_left > 0
        /\ k_count' = IF due THEN k_count + 1 ELSE k_count
        /\ k_total' = IF due THEN k_total + 1 ELSE k_total
        /\ k_age' = Aged(k_age, d)
        /\ k_since' = Since(IF due THEN 0 ELSE k_since, d)
        /\ k_left' = IF k_left > d THEN k_left - d ELSE 0
        /\ k_late' = IF k_left > d THEN 0 ELSE d - k_left
        /\ k_exact' = (k_exact /\ d = 1)
        /\ UNCHANGED <<k_pc, k_pending>>

\* A loop that goes through its body without testing its task.
PollIteration_Untested(d) ==
    LET due == HeartbeatDue(k_age)
    IN  /\ k_pc \in {"api", "wrapper", "scan"}
        /\ k_count' = IF due THEN k_count + 1 ELSE k_count
        /\ k_total' = IF due THEN k_total + 1 ELSE k_total
        /\ k_age' = Aged(IF due THEN 0 ELSE k_age, d)
        /\ k_since' = Since(IF due THEN 0 ELSE k_since, d)
        /\ k_left' = IF k_left > d THEN k_left - d ELSE 0
        /\ k_late' = IF k_left > d THEN 0 ELSE d - k_left
        /\ k_exact' = (k_exact /\ d = 1)
        /\ UNCHANGED <<k_pc, k_pending>>

\* One iteration of a polling loop whose task is not done: a heartbeat if
\* one is due, which sets last_update, then a sleep that lasts d ticks.
PollIteration(d) ==
    LET due == HeartbeatDue(k_age)
    IN  /\ k_pc \in {"api", "wrapper", "scan"}
        /\ k_left > 0
        /\ k_count' = IF due THEN k_count + 1 ELSE k_count
        /\ k_total' = IF due THEN k_total + 1 ELSE k_total
        /\ k_age' = Aged(IF due THEN 0 ELSE k_age, d)
        /\ k_since' = Since(IF due THEN 0 ELSE k_since, d)
        /\ k_left' = IF k_left > d THEN k_left - d ELSE 0
        /\ k_late' = IF k_left > d THEN 0 ELSE d - k_left
        /\ k_exact' = (k_exact /\ d = 1)
        /\ UNCHANGED <<k_pc, k_pending>>

\* The completion call is done and the turn goes on to a task: the wrapper
\* starts its own clock (workflow_logger.py lines 74-75) and polls the task
\* method.
PollWrapperStarts(g, pending) ==
    /\ k_pc = "api"
    /\ k_left = 0
    /\ k_pc' = "wrapper"
    /\ k_age' = 0
    /\ k_left' = pending
    /\ k_pending' = pending
    /\ k_count' = 0
    /\ k_since' = Since(k_since, g)
    /\ k_exact' = TRUE
    /\ k_late' = 0
    /\ UNCHANGED k_total

\* The completion call is done and the turn goes on to the workspace scan:
\* the loop of lines 215-221 reads the start_time and last_update of the
\* completion wait.  _handle_file_operation has no await, so it is done
\* within the loop's first sleep.
PollScanStarts(g) ==
    /\ k_pc = "api"
    /\ k_left = 0
    /\ k_pc' = "scan"
    /\ k_age' = Aged(k_age, g)
    /\ k_left' = 1
    /\ k_pending' = 1
    /\ k_count' = 0
    /\ k_since' = Since(k_since, g)
    /\ k_exact' = TRUE
    /\ k_late' = 0
    /\ UNCHANGED k_total

\* The awaited operation is done and the turn returns.
PollReturns ==
    /\ k_pc \in {"api", "wrapper", "scan"}
    /\ k_left = 0
    /\ k_pc' = "returned"
    /\ UNCHANGED <<k_age, k_left, k_pending, k_count, k_total, k_since,
                   k_exact, k_late>>

\* Lines 162-172: the completion call has been created; start_time and
\* last_update are the current time.
PollInit ==
    /\ k_pc = "api"
    /\ k_age = 0
    /\ k_pending \in PendingChoices
    /\ k_left = k_pending
    /\ k_count = 0
    /\ k_total = 0
    /\ k_since = -1
    /\ k_exact = TRUE
    /\ k_late = 0

PollIdle ==
    /\ k_pc = "off"
    /\ k_age = 0
    /\ k_pending = 0
    /\ k_left = 0
    /\ k_count = 0
    /\ k_total = 0
    /\ k_since = -1
    /\ k_exact = TRUE
    /\ k_late = 0

(***************************************************************************)
(* The task endpoint: api/main.py lines 13-28 calling process_task         *)
(* (agent.py lines 306-337) and, through it, the decorated task methods   *)
(*                                                                         *)
(* One request at a time.  t_failed, t_error, t_served, t_requests and     *)
(* t_entry are history.                                                    *)
(***************************************************************************)

VARIABLES
    t_pc,       \* "idle", "call1", "call2" (a completion call is out), "responded"
    t_task,     \* the CodingTask of the request
    t_first,    \* the text of the task method's first completion
    t_outcome,  \* how agent.process_task ended: a value returned or a raise
    t_status,   \* the HTTP status of the response, 0 before there is one
    t_logger,   \* the agent's WorkflowLogger
    t_context,  \* the agent's current_context
    t_failed,   \* which completion call of the request failed, 0 for none
    t_error,    \* the failure that call raised
    t_served,   \* how many requests have been submitted
    t_requests, \* the message lists of the completion calls the request's
                \* task method has issued, in order
    t_entry     \* the WorkflowLogger as the request's wrapper found it

taskVars ==
    <<t_pc, t_task, t_first, t_outcome, t_status, t_logger, t_context,
      t_failed, t_error, t_served, t_requests, t_entry>>

\* The most requests submitted.
MaxRequests == 3

\* The kinds and descriptions the requests carry: the three kinds with a
\* method and one without; a greeting in two spellings and a task.
UNKNOWN_KIND == <<"r", "e", "f", "a", "c", "t", "o", "r">>
TaskKinds == {ANALYZE, GENERATE, REVIEW, UNKNOWN_KIND}
TaskDescriptions == { <<"h", "i">>, <<"H", "i">>, <<"f", "i", "x", " ", "i", "t">> }

\* What the backend answers a completion call of the endpoint's task
\* method: one of two texts, a response with no usable choice, an error.
TaskAnswers ==
    CompletionOutcomes
        \cup {[kind |-> "text", text |-> <<"o", "k">>]}

\* How a call of process_task ends.
NoOutcome == [raised |-> "none", value |-> None]
Returned(value) == [raised |-> "none", value |-> value]

\* A handler that lets the exception through to the caller.
Caught_Reraised(exc, text) == [raised |-> exc, value |-> None]

\* Lines 330-337: process_task's handler turns any Exception raised by the
\* dispatch into a CodeResponse.
Caught(exc, text) == Returned(ErrorResponse(text))

\* api/main.py lines 16-28: the status the route answers with.
RouteStatus(outcome) ==
    IF outcome.raised = "none" THEN 200
    ELSE IF outcome.raised = "NotImplementedError" THEN 501
    ELSE 500

\* The request is answered with the outcome of process_task.
Respond(outcome, lg) ==
    /\ t_pc' = "responded"
    /\ t_outcome' = outcome
    /\ t_status' = RouteStatus(outcome)
    /\ t_logger' = lg

\* A process_task that dispatches before it looks for a greeting.
PostTask_DispatchesFirst(task_type, description) ==
    LET task == CodingTask(task_type, description, WorkspaceContext)
    IN  /\ t_pc \in {"idle", "responded"}
        /\ t_served < MaxRequests
        /\ t_served' = t_served + 1
        /\ t_task' = task
        /\ t_first' = None
        /\ t_failed' = 0
        /\ t_error' = None
        /\ t_context' = task.context
        /\ IF task_type \notin {ANALYZE, GENERATE, REVIEW}
           THEN /\ Respond(Caught("ValueError", UnknownTaskText(task_type)),
                           t_logger)
                /\ t_requests' = <<>>
                /\ t_entry' = t_logger
           ELSE IF Lower(description) \in GreetingDescriptions
           THEN /\ Respond(Returned(GreetingResponse), t_logger)
                /\ t_requests' = <<>>
                /\ t_entry' = t_logger
           ELSE /\ t_pc' = "call1"
                /\ t_outcome' = NoOutcome
                /\ t_status' = 0
                /\ t_logger' =
                       log_step(Alone(t_logger), Explanation(task_type)).lg
                /\ t_requests' = <<FirstRequest(task)>>
                /\ t_entry' = t_logger

\* POST /task: process_task from its entry to the task method's first
\* completion call, or to its return for a greeting (lines 309-315) or a
\* kind with no method (lines 328-337).
PostTask(task_type, description) ==
    LET task == CodingTask(task_type, description, WorkspaceContext)
        greeting == Lower(description) \in GreetingDescriptions
    IN  /\ t_pc \in {"idle", "responded"}
        /\ t_served < MaxRequests
        /\ t_served' = t_served + 1
        /\ t_task' = task
        /\ t_first' = None
        /\ t_failed' = 0
        /\ t_error' = None
        /\ t_context' = IF greeting THEN t_context ELSE task.context
        /\ IF greeting
           THEN /\ Respond(Returned(GreetingResponse), t_logger)
                /\ t_requests' = <<>>
                /\ t_entry' = t_logger
           ELSE IF task_type \notin {ANALYZE, GENERATE, REVIEW}
           THEN /\ Respond(Caught("ValueError", UnknownTaskText(task_type)),
                           t_logger)
                /\ t_requests' = <<>>
                /\ t_entry' = t_logger
           ELSE /\ t_pc' = "call1"
                /\ t_outcome' = NoOutcome
                /\ t_status' = 0
                /\ t_logger' =
                       log_step(Alone(t_logger), Explanation(task_type)).lg
                /\ t_requests' = <<FirstRequest(task)>>
                /\ t_entry' = t_logger

\* A completion call of the task method fails (the backend raises, or the
\* response has no usable choice): the method raises its own Exception
\* (lines 366-367, 420-421, 502-503), the wrapper reports the failed result
\* and re-raises (workflow_logger.py lines 94-96), process_task catches.
PostTaskCallFails(outcome) ==
    /\ t_pc \in {"call1", "call2"}
    /\ outcome.kind # "text"
    /\ t_failed' = IF t_pc = "call1" THEN 1 ELSE 2
    /\ t_error' = outcome.text
    /\ Respond(Caught("Exception",
                      TaskFailureText(t_task.task_type, outcome.text)),
               log_result(Alone(t_logger), FALSE).lg)
    /\ UNCHANGED <<t_task, t_first, t_context, t_served, t_requests, t_entry>>

\* A completion call of the task method returns a text: the method makes
\* its second call, or returns its CodeResponse through the wrapper
\* (workflow_logger.py lines 88-92) and process_task.
PostTaskCallAnswers(outcome) ==
    LET again == t_pc = "call1" /\ CallsOf(t_task.task_type) = 2
    IN  /\ t_pc \in {"call1", "call2"}
        /\ outcome.kind = "text"
        /\ IF again
           THEN /\ t_pc' = "call2"
                /\ t_first' = outcome.text
                /\ t_requests' =
                       Append(t_requests, SecondRequest(t_task, outcome.text))
                /\ UNCHANGED <<t_outcome, t_status, t_logger>>
           ELSE /\ Respond(Returned(
                       IF t_pc = "call1"
                       THEN TaskResponse(t_task.task_type, outcome.text, None)
                       ELSE TaskResponse(t_task.task_type, t_first,
                                         outcome.text)),
                       log_result(Alone(t_logger), TRUE).lg)
                /\ UNCHANGED <<t_first, t_requests>>
        /\ UNCHANGED <<t_task, t_context, t_failed, t_error, t_served, t_entry>>

\* The service has started: api/main.py line 11, agent.py lines 42-69.
TaskInit ==
    /\ t_pc = "idle"
    /\ t_task = NoTask
    /\ t_first = None
    /\ t_outcome = NoOutcome
    /\ t_status = 0
    /\ t_logger = NewLogger
    /\ t_context = None
    /\ t_failed = 0
    /\ t_error = None
    /\ t_served = 0
    /\ t_requests = <<>>
    /\ t_entry = NewLogger

TaskIdle == TaskInit

(***************************************************************************)
(* The suggestions of a review: agent.py lines 464-480                     *)
(***************************************************************************)

VARIABLES
    r_pc,            \* "call", "returned"
    r_review,        \* the text of the first completion
    r_improvements,  \* the text of the second completion
    r_all,           \* all_suggestions
    r_out            \* prioritized_suggestions

reviewVars == <<r_pc, r_review, r_improvements, r_all, r_out>>

\* The lines the review texts are made of: suggestions with and without a
\* critical word, in upper case and with blanks to strip, and a line that
\* is no suggestion.
ReviewLines ==
    { <<"y", "o", "u", " ", "s", "h", "o", "u", "l", "d", " ", "f", "i", "x">>,
      <<"U", "R", "G", "E", "N", "T", ":", " ", "c", "o", "n", "s", "i", "d", "e", "r", " ", "x">>,
      <<" ", "c", "o", "u", "l", "d", " ", "b", "u", "g", " ">>,
      <<"r", "e", "c", "o", "m", "m", "e", "n", "d", " ", "y">>,
      <<"f", "i", "n", "e">> }

\* The most lines of a review text.
MaxReviewLines == 3

RECURSIVE ReviewLineSeqs(_)
ReviewLineSeqs(n) ==
    IF n = 0 THEN {<<>>}
    ELSE ReviewLineSeqs(n - 1)
            \cup {Append(ls, l) : ls \in ReviewLineSeqs(n - 1), l \in ReviewLines}

ReviewTexts == {Join(ls, NEWLINE) : ls \in ReviewLineSeqs(MaxReviewLines)}

ImprovementTexts ==
    { <<"o", "k">>,
      <<"s", "e", "c", "u", "r", "i", "t", "y", " ", "s", "h", "o", "u", "l", "d", "\n", "y", "o", "u", " ", "s", "h", "o", "u", "l", "d", " ", "f", "i", "x">> }

\* The two completions of a review have returned their texts.
ReviewInit ==
    /\ r_pc = "call"
    /\ r_review \in ReviewTexts
    /\ r_improvements \in ImprovementTexts
    /\ r_all = <<>>
    /\ r_out = <<>>

ReviewIdle ==
    /\ r_pc = "off"
    /\ r_review = <<>>
    /\ r_improvements = <<>>
    /\ r_all = <<>>
    /\ r_out = <<>>

\* Lines 464-480: the suggestions are extracted from both texts and put in
\* order of priority.
Prioritize ==
    LET all_suggestions ==
            extract_suggestions(r_review \o NEWLINE \o r_improvements)
    IN  /\ r_pc = "call"
        /\ r_all' = all_suggestions
        /\ r_out' = prioritized_suggestions(all_suggestions)
        /\ r_pc' = "returned"
        /\ UNCHANGED <<r_review, r_improvements>>

(***************************************************************************)
(* Specifications                                                          *)
(***************************************************************************)

vars == <<classifyVars, parseVars, chatVars, storeVars, loggerVars, pollVars, taskVars, reviewVars>>

\* The classifier applied to every bounded message.
InitClassify ==
    ClassifyInit /\ ParseIdle /\ ChatIdle /\ StoreIdle /\ LoggerIdle
    /\ PollIdle /\ TaskIdle /\ ReviewIdle
NextClassify ==
    Classify /\ UNCHANGED <<parseVars, chatVars, storeVars, loggerVars, pollVars, taskVars, reviewVars>>
SpecClassify == InitClassify /\ [][NextClassify]_vars

\* The extractor run line by line on every bounded input.
InitParse ==
    ParseInit /\ ClassifyIdle /\ ChatIdle /\ StoreIdle /\ LoggerIdle
    /\ PollIdle /\ TaskIdle /\ ReviewIdle
ParseOnly == UNCHANGED <<classifyVars, chatVars, storeVars, loggerVars, pollVars, taskVars, reviewVars>>
NextParse ==
    \/ ParseCall /\ ParseOnly
    \/ ParseFenceOpen /\ ParseOnly
    \/ ParseFileLabel /\ ParseOnly
    \/ ParseFenceClose /\ ParseOnly
    \/ ParseOtherLine /\ ParseOnly
    \/ ParseReturn /\ ParseOnly
SpecParse == InitParse /\ [][NextParse]_vars

\* The agent serving the command prompt and the chat gateway.
Init == ChatInit /\ ClassifyIdle /\ ParseIdle /\ StoreIdle /\ LoggerIdle
    /\ PollIdle /\ TaskIdle /\ ReviewIdle
ChatOnly == UNCHANGED <<classifyVars, parseVars, storeVars, loggerVars, pollVars, taskVars, reviewVars>>
Next ==
    \/ \E m \in ChatMessages, fails \in BOOLEAN :
          CliSubmit(m, fails) /\ ChatOnly
    \/ \E m \in ChatMessages, fails \in BOOLEAN :
          SlackMention(m, fails) /\ ChatOnly
    \/ \E p \in Procs, o \in CompletionOutcomes :
          ApiCompletes(p, o) /\ ChatOnly
    \/ \E p \in Procs, d \in SleepTicks : ChatPollPending(p, d) /\ ChatOnly
    \/ \E p \in Procs : ChatReplyFailed(p) /\ ChatOnly
    \/ \E p \in Procs : ChatReplyTask(p) /\ ChatOnly
    \/ \E p \in Procs, d \in SleepTicks : ChatReplyScan(p, d) /\ ChatOnly
    \/ \E p \in Procs : ChatReplyConversation(p) /\ ChatOnly
    \/ \E p \in Procs : TaskRuns(p) /\ ChatOnly
    \/ \E p \in Procs, o \in TaskOutcomes :
          TaskCallCompletes(p, o) /\ ChatOnly
    \/ \E p \in Procs, d \in SleepTicks : WrapperPollPending(p, d) /\ ChatOnly
    \/ \E p \in Procs : WrapperTaskDone(p) /\ ChatOnly
    \/ \E p \in Procs : WrapperTaskFailed(p) /\ ChatOnly
    \/ \E p \in Procs, ok \in BOOLEAN : FileTaskRuns(p, ok) /\ ChatOnly
    \/ \E p \in Procs : ScanDone(p) /\ ChatOnly
    \/ \E p \in Procs : ScanFailed(p) /\ ChatOnly
Spec == Init /\ [][Next]_vars

\* The conversation store under any sequence of calls.
InitStore ==
    StoreInit /\ ClassifyIdle /\ ParseIdle /\ ChatIdle /\ LoggerIdle
    /\ PollIdle /\ TaskIdle /\ ReviewIdle
StoreOnly ==
    UNCHANGED <<classifyVars, parseVars, chatVars, loggerVars, pollVars, taskVars, reviewVars>>
NextStore ==
    \/ StartConversation /\ StoreOnly
    \/ \E role \in StoreRoles, content \in StoreContents, mark \in BOOLEAN :
          AddMessage(role, content, mark) /\ StoreOnly
    \/ \E limit \in StoreLimits : GetRecentMessages(limit) /\ StoreOnly
    \/ GetConversationContext /\ StoreOnly
    \/ \E updates \in ContextUpdates : UpdateContext(updates) /\ StoreOnly
    \/ ClearConversation /\ StoreOnly
SpecStore == InitStore /\ [][NextStore]_vars

\* The progress reporter under any sequence of calls.
InitLogger ==
    LoggerInit /\ ClassifyIdle /\ ParseIdle /\ ChatIdle /\ StoreIdle
    /\ PollIdle /\ TaskIdle /\ ReviewIdle
LoggerOnly ==
    UNCHANGED <<classifyVars, parseVars, chatVars, storeVars, pollVars, taskVars, reviewVars>>
NextLogger ==
    \/ \E action \in StepActions : LogStep(action) /\ LoggerOnly
    \/ LogWorking /\ LoggerOnly
    \/ \E success \in BOOLEAN : LogResult(success) /\ LoggerOnly
    \/ LogReset /\ LoggerOnly
SpecLogger == InitLogger /\ [][NextLogger]_vars

\* The clock of one turn's polling loops.
InitPoll ==
    PollInit /\ ClassifyIdle /\ ParseIdle /\ ChatIdle /\ StoreIdle
    /\ LoggerIdle /\ TaskIdle /\ ReviewIdle
PollOnly ==
    UNCHANGED <<classifyVars, parseVars, chatVars, storeVars, loggerVars,
                taskVars, reviewVars>>
NextPoll ==
    \/ \E d \in PollSleeps : PollIteration(d) /\ PollOnly
    \/ \E g \in BetweenTicks, pending \in PendingChoices :
          PollWrapperStarts(g, pending) /\ PollOnly
    \/ \E g \in BetweenTicks : PollScanStarts(g) /\ PollOnly
    \/ PollReturns /\ PollOnly
SpecPoll == InitPoll /\ [][NextPoll]_vars

\* The same turn on an event loop that keeps running: a sleep that has been
\* started ends, and a coroutine that can go on does.
SpecPollFair == SpecPoll /\ WF_vars(NextPoll)

\* The task endpoint serving requests one after the other.
InitTask ==
    TaskInit /\ ClassifyIdle /\ ParseIdle /\ ChatIdle /\ StoreIdle
    /\ LoggerIdle /\ PollIdle /\ ReviewIdle
TaskOnly ==
    UNCHANGED <<classifyVars, parseVars, chatVars, storeVars, loggerVars,
                pollVars, reviewVars>>
NextTask ==
    \/ \E task_type \in TaskKinds, description \in TaskDescriptions :
          PostTask(task_type, description) /\ TaskOnly
    \/ \E o \in TaskAnswers : PostTaskCallFails(o) /\ TaskOnly
    \/ \E o \in TaskAnswers : PostTaskCallAnswers(o) /\ TaskOnly
SpecTask == InitTask /\ [][NextTask]_vars

\* The suggestions of a review computed for every bounded pair of texts.
InitReview ==
    ReviewInit /\ ClassifyIdle /\ ParseIdle /\ ChatIdle /\ StoreIdle
    /\ LoggerIdle /\ PollIdle /\ TaskIdle
NextReview ==
    Prioritize
        /\ UNCHANGED <<classifyVars, parseVars, chatVars, storeVars,
                       loggerVars, pollVars, taskVars>>
SpecReview == InitReview /\ [][NextReview]_vars

(***************************************************************************)
(* Properties of the chat turn                                             *)
(***************************************************************************)

\* The front end has started a turn and chat() has returned.
TurnEnded(p) == hist[p].turn_no > 0 /\ ~InTurn(p)

\* The conversation holds, at position i, the message with this role and
\* content that front end p's turn recorded.
RecordedAt(i, role, content, p) ==
    /\ i \in 1..Len(current_conversation.messages)
    /\ current_conversation.messages[i] =
           Message(role, content, [source |-> SourceOf(p)])

\* How a call of chat() can end.
ReturnOutcomes ==
    {"reply", "task", "task_failed", "scan", "scan_failed", "error"}

\* C1: a chat turn never raises to its caller.  A turn in which context
\* building, the completion call or the extraction of the reply fails has
\* ended, by returning the error text made from that failure; the text is in
\* the conversation as the turn's assistant message, and the turn reported
\* exactly one failed result.  Every turn that has ended has returned a text,
\* and returned the error text only if such a failure was raised.
C1_FailureBecomesErrorReply ==
    \A p \in Procs :
        /\ hist[p].raised # None =>
              /\ TurnEnded(p)
              /\ hist[p].outcome = "error"
              /\ hist[p].response = ErrorMessage(hist[p].raised)
              /\ RecordedAt(hist[p].asst_at, "assistant",
                            ErrorMessage(hist[p].raised), p)
              /\ hist[p].failed = 1
        /\ TurnEnded(p) =>
              /\ hist[p].outcome \in ReturnOutcomes
              /\ hist[p].response # None
              /\ hist[p].outcome = "error" <=> hist[p].raised # None

\* Two turns have failed, one at the completion call and one at the
\* extraction of the reply.
C1_Witness ==
    /\ TurnEnded("cli") /\ hist["cli"].raised \in BackendErrors
    /\ TurnEnded("slack") /\ hist["slack"].raised = MALFORMED

\* C2: within a turn the inbound user message is appended to the
\* conversation before the turn's assistant message, whatever the outcome: a
\* turn in progress has recorded its user message, a turn that has ended has
\* recorded an assistant message, and the user message stands before it.
C2_UserBeforeAssistant ==
    \A p \in Procs :
        /\ InTurn(p) => RecordedAt(hist[p].user_at, "user", loc[p].message, p)
        /\ TurnEnded(p) => hist[p].asst_at # 0
        /\ hist[p].asst_at # 0 =>
              /\ 0 < hist[p].user_at
              /\ hist[p].user_at < hist[p].asst_at
              /\ hist[p].asst_at <= Len(current_conversation.messages)
              /\ current_conversation.messages[hist[p].user_at].role = "user"
              /\ current_conversation.messages[hist[p].user_at].metadata =
                     [source |-> SourceOf(p)]
              /\ current_conversation.messages[hist[p].asst_at].role = "assistant"
              /\ current_conversation.messages[hist[p].asst_at].metadata =
                     [source |-> SourceOf(p)]

\* A turn that ended with a reply and a turn that ended with an error have
\* both recorded their two messages.
C2_Witness ==
    /\ TurnEnded("cli") /\ hist["cli"].outcome = "reply"
    /\ TurnEnded("slack") /\ hist["slack"].outcome = "error"
    /\ hist["cli"].user_at < hist["slack"].user_at
    /\ hist["slack"].asst_at < hist["cli"].asst_at

\* C3: no heartbeat notice is emitted once the awaited call has completed:
\* whenever a polling loop called log_working, the task it awaits was still
\* pending.
C3_HeartbeatOnlyWhilePending ==
    \A p \in Procs : hist[p].beat \in {"none", "pending"}

\* A turn emitted a heartbeat, and the call it awaits has since completed
\* while the turn is still suspended in its wait.
C3_Witness ==
    \E p \in Procs :
        /\ InTurn(p)
        /\ hist[p].beat = "pending"
        /\ ~StillWaiting(awaited[p])

\* C4: every step that log_step pushed during a turn has been popped by a
\* log_result when the turn ends.
C4_EveryStepPoppedByTurnEnd ==
    \A p \in Procs : TurnEnded(p) => hist[p].pops = hist[p].pushes

\* C5: a turn calls reset() exactly once, before any other thing it does
\* and at no later point; reset() leaves the step counter at 0 and the stack
\* of active steps empty, whatever it found.
C5_ResetOnceAtTurnStart ==
    \A p \in Procs :
        hist[p].turn_no > 0 =>
            /\ hist[p].resets = 1
            /\ hist[p].reset_first
            /\ hist[p].after_reset.step_count = 0
            /\ hist[p].after_reset.active_tasks = <<>>

\* A turn's reset() found a counter and a stack that earlier calls had left.
C5_Witness ==
    \E p \in Procs : hist[p].turn_no > 0 /\ hist[p].dirty

\* C6: turns never run in parallel: while one front end's turn is in
\* progress, the other's is not.
C6_TurnsNeverOverlap ==
    ~(InTurn("cli") /\ InTurn("slack"))

(***************************************************************************)
(* Properties of the task classifier                                       *)
(***************************************************************************)

\* The ordered reference function of the classifier: the kind of the first
\* keyword group, in the order analyze, generate, review, one of whose
\* members occurs in the lower-cased text; None when no group matches.
ReferenceTaskType(message) ==
    LET low == Lower(message)
        groups == << <<ANALYZE, AnalyzeKeywords>>,
                     <<GENERATE, GenerateKeywords>>,
                     <<REVIEW, ReviewKeywords>> >>
        hits == {g \in 1..3 :
                    \E k \in 1..Len(groups[g][2]) : Contains(low, groups[g][2][k])}
    IN  IF hits = {} THEN None
        ELSE groups[CHOOSE g \in hits : \A h \in hits : g <= h][1]

\* C7: the classifier returns, for every message, the kind of the first
\* matching keyword group in the order analyze, generate, review; a message
\* with an analyze keyword and a review-pr phrase is analyze, and a message
\* with none of the keywords is no task.
C7_ClassifierIsOrderedReference ==
    c_pc = "returned" =>
        /\ c_task_type = ReferenceTaskType(c_message)
        /\ (AnyIn(AnalyzeKeywords, Lower(c_message))
              /\ AnyIn(ReviewKeywords, Lower(c_message))
                => c_task_type = ANALYZE)
        /\ (~AnyIn(AnalyzeKeywords \o GenerateKeywords \o ReviewKeywords,
                   Lower(c_message))
                => c_task_type = None)

\* A message with a review-pr phrase in upper case has been classified analyze.
C7_Witness ==
    /\ c_pc = "returned"
    /\ Contains(c_message, <<"R", "E", "V", "I", "E", "W", " ", "p", "r">>)
    /\ c_task_type = ANALYZE

\* C31 as stated: the message "review and generate tests" classifies as
\* generate.
C31_ReviewAndGenerateIsGenerate ==
    (c_pc = "returned" /\ c_message = REVIEW_AND_GENERATE)
        => c_task_type = GENERATE

\* C31, amended: the message "review and generate tests" classifies as
\* analyze, because "review" is a keyword of the analyze group and that
\* group is tested first.
C31_ReviewAndGenerateIsAnalyze ==
    (c_pc = "returned" /\ c_message = REVIEW_AND_GENERATE)
        => /\ c_task_type = ANALYZE
           /\ Contains(Lower(c_message), AnalyzeKeywords[2])
           /\ Contains(Lower(c_message), GenerateKeywords[1])

\* "review and generate tests" has been classified.
C31_Witness ==
    /\ c_pc = "returned"
    /\ c_message = REVIEW_AND_GENERATE
    /\ c_task_type # None

\* C36: the classifier returns review for no message: a message that holds
\* one of the review phrases (review pr, review pull request, check pr)
\* holds an analyze keyword (review, check) as well and is classified
\* analyze, so no chat turn, which takes its task's kind from the
\* classifier, reaches the review pipeline.
C36_ClassifierNeverReview ==
    c_pc = "returned" =>
        /\ c_task_type # REVIEW
        /\ c_task_type \in {ANALYZE, GENERATE, None}
        /\ AnyIn(ReviewKeywords, Lower(c_message)) =>
              /\ \/ Contains(Lower(c_message), <<"r", "e", "v", "i", "e", "w">>)
                 \/ Contains(Lower(c_message), <<"c", "h", "e", "c", "k">>)
              /\ c_task_type = ANALYZE

\* "check PR #4", which holds the review phrase "check pr" once lower-cased,
\* has been classified.
C36_Witness ==
    /\ c_pc = "returned"
    /\ c_message = CHECK_PR_4
    /\ AnyIn(ReviewKeywords, Lower(c_message))
    /\ c_task_type = ANALYZE

(***************************************************************************)
(* Properties of the code-change extractor                                 *)
(***************************************************************************)

\* A line that one of the three marker branches of the loop takes.
IsMarker(line) == StartsWith(line, FENCE) \/ IsFileLabel(line)

\* The input is a File: label with a well-formed path (not empty, no
\* surrounding whitespace), then k >= 1 lines that are not markers, then a
\* bare fence.
LabelledBlock(ls) ==
    /\ Len(ls) >= 3
    /\ StartsWith(ls[1], FILE_LABEL)
    /\ Len(ls[1]) > Len(FILE_LABEL)
    /\ ls[1][Len(FILE_LABEL) + 1] \notin Whitespace
    /\ ls[1][Len(ls[1])] \notin Whitespace
    /\ \A i \in 2..(Len(ls) - 1) : ~IsMarker(ls[i])
    /\ ls[Len(ls)] = FENCE

\* C8: for a File: label line, then k >= 1 non-marker lines, then a bare
\* fence, the extractor returns exactly the one entry that maps the path to
\* the k lines joined with newlines in their original order.
C8_LabelledBlockExtracted ==
    p_pc = "returned" /\ LabelledBlock(lines) =>
        /\ DOMAIN p_result = {SubSeq(lines[1], Len(FILE_LABEL) + 1, Len(lines[1]))}
        /\ \A path \in DOMAIN p_result :
              LET content == SplitChar(p_result[path], "\n")
              IN  /\ Len(content) = Len(lines) - 2
                  /\ \A i \in 1..Len(content) : content[i] = lines[i + 1]

\* A labelled block with two different content lines has been extracted.
C8_Witness ==
    /\ p_pc = "returned"
    /\ LabelledBlock(lines)
    /\ Len(lines) = 4
    /\ lines[2] # lines[3]
    /\ DOMAIN p_result # {}

\* A file content none of whose lines is a marker line.
PlainContent(content) ==
    \A i \in 1..Len(SplitChar(content, "\n")) :
        ~IsMarker(SplitChar(content, "\n")[i])

\* C9 as stated: for any mapping with non-empty, path-like keys, the
\* extractor applied to the file fences rendered from the mapping returns
\* the mapping.
C9_RoundTripAnyMapping ==
    p_pc = "returned" /\ files # <<>> => p_result = AsDict(files)

\* C9: for any mapping with non-empty, path-like keys and values that have
\* no line starting with three backquotes or with a File:/filename: label,
\* the extractor applied to the rendered file fences returns the mapping.
C9_RoundTripPlainValues ==
    p_pc = "returned" /\ files # <<>>
        /\ (\A i \in 1..Len(files) : PlainContent(files[i][2]))
        => p_result = AsDict(files)

\* A two-file mapping with a multi-line value and an empty value has made
\* the round trip.
C9_Witness ==
    /\ p_pc = "returned"
    /\ Len(files) = 2
    /\ \A i \in 1..Len(files) : PlainContent(files[i][2])
    /\ \E i \in 1..Len(files) : Len(SplitChar(files[i][2], "\n")) = 2
    /\ \E i \in 1..Len(files) : files[i][2] = <<>>
    /\ p_result = AsDict(files)

\* The loop has just processed a bare fence line.
AfterBareFence ==
    p_pc = "loop" /\ line_no >= 2 /\ IsFenceClose(lines[line_no - 1])

\* C10 as stated: after the extractor processes a bare closing fence line,
\* current_file is none.
C10_NoFileOpenAfterBareFence == AfterBareFence => current_file = None

\* C10: after the extractor processes a bare fence line no file is open,
\* unless the fence directly follows a marker line, in which case a file
\* that marker left open stays open with an empty buffer; and whenever no
\* file is open the buffer is empty, so the non-marker lines that follow a
\* closing fence are discarded: the result is that of the input cut after it.
C10_BareFenceClosesNonEmptyFile ==
    /\ AfterBareFence =>
          \/ ~Truthy(current_file)
          \/ /\ line_no >= 3
             /\ IsMarker(lines[line_no - 2])
             /\ current_content = <<>>
    /\ p_pc = "loop" /\ ~Truthy(current_file) => current_content = <<>>
    /\ p_pc = "returned" =>
          \A k \in 2..Len(lines) :
              /\ lines[k] = FENCE
              /\ ~IsMarker(lines[k - 1])
              /\ \A j \in (k + 1)..Len(lines) : ~IsMarker(lines[j])
              => p_result = parse_code_changes(Join(SubSeq(lines, 1, k), NEWLINE))

\* A bare fence after a content line has closed a file and committed it.
C10_Witness ==
    /\ AfterBareFence
    /\ line_no >= 3
    /\ ~IsMarker(lines[line_no - 2])
    /\ current_file = None
    /\ DOMAIN changes # {}


\* A fence line whose tag has neither a path separator nor a dot.
PlainTagFence(line) ==
    /\ IsFenceOpen(line)
    /\ ~Contains(SubSeq(line, 4, Len(line)), <<"/">>)
    /\ ~Contains(SubSeq(line, 4, Len(line)), <<".">>)

\* The loop has just processed a fence line with a plain language tag.
AfterPlainTagFence ==
    p_pc = "loop" /\ line_no >= 2 /\ PlainTagFence(lines[line_no - 1])

\* C11 as stated: after the extractor processes a fence line with a plain
\* language tag, current_file is unset, whether or not a file was open.
C11_NoFileOpenAfterPlainTag == AfterPlainTagFence => ~Truthy(current_file)

\* C11: a fence line with a plain language tag leaves current_file as it
\* was: unset if no file was open, the same path if one was.  The lines
\* accumulated for an open file are committed under its path and the buffer
\* is emptied; nothing else is changed.
C11_PlainTagKeepsCurrentFile ==
    [][InLoop /\ PlainTagFence(lines[line_no]) =>
          /\ current_file' = current_file
          /\ current_content' = <<>>
          /\ changes' = IF Truthy(current_file) /\ current_content # <<>>
                        THEN Put(changes, current_file,
                                 Join(current_content, NEWLINE))
                        ELSE changes]_vars

\* A plain-tag fence has been processed while a file with accumulated lines
\* was open: the lines are committed and the file is still open.
C11_Witness ==
    /\ AfterPlainTagFence
    /\ Truthy(current_file)
    /\ current_file \in DOMAIN changes
    /\ current_content = <<>>


\* The path a label line names: line.split(": ", 1)[1].strip()
PathOf(line) == Strip(AfterFirst(line, <<":", " ">>))

\* The index of the last marker line among the first n lines, 0 if none.
LastMarker(ls, n) ==
    LET ms == {i \in 1..n : IsMarker(ls[i])}
    IN  IF ms = {} THEN 0 ELSE CHOOSE i \in ms : \A j \in ms : j <= i

\* The input opens one path twice: a label, k >= 1 lines that are not
\* markers, a label of the same path, then lines that are not markers.
ReopenedBlock(ls) ==
    /\ Len(ls) >= 3
    /\ IsFileLabel(ls[1])
    /\ Truthy(PathOf(ls[1]))
    /\ LastMarker(ls, Len(ls)) >= 3
    /\ IsFileLabel(ls[LastMarker(ls, Len(ls))])
    /\ PathOf(ls[LastMarker(ls, Len(ls))]) = PathOf(ls[1])
    /\ \A i \in 2..(LastMarker(ls, Len(ls)) - 1) : ~IsMarker(ls[i])

\* C12 as stated: when the same path is opened twice, the output value for
\* that path is the content accumulated under its last occurrence.
C12_LastOccurrenceWins ==
    p_pc = "returned" /\ ReopenedBlock(lines) =>
        /\ DOMAIN p_result = {PathOf(lines[1])}
        /\ \A path \in DOMAIN p_result :
              p_result[path] =
                  Join(SubSeq(lines, LastMarker(lines, Len(lines)) + 1,
                              Len(lines)), NEWLINE)

\* C12: the value of a path is the last non-empty run of lines read while
\* it was open.  The buffer of an open file is the run of lines since the
\* last marker line; every write to the output stores a non-empty buffer
\* under the open path, replacing what the path had; so when a path is
\* opened twice its value is the content under the last occurrence if that
\* has at least one line, and stays the earlier content if it has none.
C12_LastNonEmptyRunWins ==
    /\ [](/\ p_pc = "loop" /\ Truthy(current_file) =>
                current_content =
                    SubSeq(lines, LastMarker(lines, line_no - 1) + 1,
                           line_no - 1)
          /\ p_pc = "returned" /\ ReopenedBlock(lines) =>
                /\ DOMAIN p_result = {PathOf(lines[1])}
                /\ \A path \in DOMAIN p_result :
                      p_result[path] =
                          IF LastMarker(lines, Len(lines)) < Len(lines)
                          THEN Join(SubSeq(lines,
                                           LastMarker(lines, Len(lines)) + 1,
                                           Len(lines)), NEWLINE)
                          ELSE Join(SubSeq(lines, 2,
                                           LastMarker(lines, Len(lines)) - 1),
                                    NEWLINE))
    /\ [][\/ changes' = changes
          \/ /\ Truthy(current_file)
             /\ current_content # <<>>
             /\ changes' = Put(changes, current_file,
                               Join(current_content, NEWLINE))]_vars

\* A path was opened twice with different content, and the output holds
\* the content of the second occurrence.
C12_Witness ==
    /\ p_pc = "returned"
    /\ ReopenedBlock(lines)
    /\ LastMarker(lines, Len(lines)) < Len(lines)
    /\ lines[2] # lines[Len(lines)]
    /\ \A path \in DOMAIN p_result : p_result[path] = lines[Len(lines)]
    /\ DOMAIN p_result # {}


\* C13: every key of the mapping the extractor builds and returns is a
\* non-empty string, for every input text.
C13_KeysNonEmpty ==
    /\ \A k \in DOMAIN changes : k # <<>> /\ k # None
    /\ \A k \in DOMAIN p_result : k # <<>> /\ k # None

\* The extractor has returned for an input in which a label with nothing
\* after the colon is followed by a content line.
C13_Witness ==
    /\ p_pc = "returned"
    /\ \E i \in 1..(Len(lines) - 1) :
          /\ lines[i] = FILE_LABEL
          /\ ~IsMarker(lines[i + 1])
          /\ lines[i + 1] # <<>>

\* C14: for a text with no line starting with three backquotes and no
\* File: / filename: label line the extractor returns the empty mapping; and
\* extraction never fails: the two subscripts of the loop have an element
\* to take (the part after ": " of a label line, the first token of a tag
\* that holds a path separator or a dot), and the loop index stays in range.
C14_NoMarkersNoChanges ==
    /\ p_pc = "returned" /\ (\A i \in 1..Len(lines) : ~IsMarker(lines[i])) =>
          p_result = EmptyDict
    /\ p_pc = "loop" =>
          /\ line_no \in 1..(Len(lines) + 1)
          /\ \A i \in 1..Len(lines) :
                /\ IsFileLabel(lines[i]) =>
                       Len(SplitChar(lines[i], ":")) >= 2
                       /\ FindFirst(lines[i], <<":", " ">>) > 0
                /\ IsFenceOpen(lines[i]) /\ ~PlainTagFence(lines[i]) =>
                       FirstToken(SubSeq(lines[i], 4, Len(lines[i]))) # <<>>

\* The extractor has returned the empty mapping for a text of several
\* lines, none of them a marker and not all of them empty.
C14_Witness ==
    /\ p_pc = "returned"
    /\ Len(lines) >= 2
    /\ \A i \in 1..Len(lines) : ~IsMarker(lines[i])
    /\ \E i \in 1..Len(lines) : lines[i] # <<>>
    /\ p_result = EmptyDict

\* C15: if the input ends while a file is open, the lines accumulated for
\* it, which are the lines after the last marker line, are in the output
\* under its path; the rest of the output is what had been committed before.
C15_OpenFileFlushedAtEnd ==
    p_pc = "returned" /\ Truthy(current_file)
        /\ LastMarker(lines, Len(lines)) < Len(lines) =>
            /\ current_file \in DOMAIN p_result
            /\ p_result[current_file] =
                   Join(SubSeq(lines, LastMarker(lines, Len(lines)) + 1,
                               Len(lines)), NEWLINE)
            /\ \A k \in DOMAIN p_result \ {current_file} :
                   p_result[k] =
                       parse_code_changes(
                           Join(SubSeq(lines, 1,
                                       LastMarker(lines, Len(lines)) - 1),
                                NEWLINE))[k]

\* The input ended with a line accumulated for an open file, after another
\* file had been committed.
C15_Witness ==
    /\ p_pc = "returned"
    /\ Truthy(current_file)
    /\ LastMarker(lines, Len(lines)) = Len(lines) - 1
    /\ lines[Len(lines)] # <<>>
    /\ current_file \in DOMAIN p_result
    /\ DOMAIN p_result # {current_file}


(***************************************************************************)
(* Properties of the conversation store (SpecStore)                        *)
(***************************************************************************)

\* The last call was name.
LastCall(name) == s_call.name = name

\* The smaller of two numbers.
Smaller(a, b) == IF a <= b THEN a ELSE b

\* The last n elements of s, in order (all of s when n >= Len(s)).
LastN(s, n) == SubSeq(s, Len(s) - Smaller(n, Len(s)) + 1, Len(s))

\* C16: for every non-empty history and every limit N,
\* get_recent_messages(limit=N) returns exactly min(N, len(history))
\* messages: the last ones, in chronological order.
C16_ReturnsLastMinLimit ==
    (LastCall("get_recent_messages") /\ s_prev.messages # <<>>)
        => /\ Len(s_ret) = Smaller(s_call.limit, Len(s_prev.messages))
           /\ s_ret = LastN(s_prev.messages, s_call.limit)

\* C17: get_recent_messages and get_conversation_context leave the store as
\* it was; with no conversation they return an empty list and an empty
\* mapping and there is still no conversation afterwards.
C17_AccessorsArePure ==
    /\ LastCall("get_recent_messages")
        => /\ s_conv = s_prev
           /\ ~s_prev.active => (s_ret = <<>> /\ ~s_conv.active)
    /\ LastCall("get_conversation_context")
        => /\ s_conv = s_prev
           /\ ~s_prev.active => (DOMAIN s_ret = {} /\ ~s_conv.active)

C17_Witness ==
    /\ LastCall("get_recent_messages")
    /\ ~s_prev.active
    /\ s_call.limit > 0
    /\ s_ret = <<>>
    /\ ~s_conv.active

\* C18: after N add_message calls on an active conversation with no start
\* or clear in between, the history is what it was before followed by the N
\* added messages in call order: N longer, earlier messages in place.
C18_AddAlwaysAppends ==
    /\ s_conv.messages = s_base \o s_added
    /\ Len(s_conv.messages) = Len(s_base) + Len(s_added)
    /\ \A i \in 1..Len(s_base) : s_conv.messages[i] = s_base[i]

C18_Witness ==
    /\ LastCall("add_message")
    /\ s_base # <<>>
    /\ Len(s_added) >= 2
    /\ s_added[1] # s_added[2]
    /\ s_conv.messages = s_base \o s_added

\* C19: add_message with no conversation (after __init__ or after
\* clear_conversation) creates an empty one first: afterwards a conversation
\* is active, its history is the one added message, and that message is the
\* returned value.
C19_AddCreatesConversation ==
    (LastCall("add_message") /\ ~s_prev.active)
        => /\ s_conv.active
           /\ s_conv.messages = <<s_ret>>
           /\ s_ret.role = s_call.role
           /\ s_ret.content = s_call.content
           /\ DOMAIN s_conv.context = {}

C19_Witness ==
    /\ LastCall("add_message")
    /\ ~s_prev.active
    /\ s_conv.active
    /\ s_conv.messages = <<s_ret>>

\* C20: after update_context(updates) a conversation is active, every key of
\* updates maps to its value in updates, every other key of the context has
\* the value it had, the context has no further key, and the history is
\* unchanged.
C20_UpdateMergesLastWriteWins ==
    LastCall("update_context")
        => LET old == s_prev.context
               new == s_conv.context
               upd == s_call.updates
           IN  /\ s_conv.active
               /\ DOMAIN new = (DOMAIN old) \cup (DOMAIN upd)
               /\ \A k \in DOMAIN upd : new[k] = upd[k]
               /\ \A k \in (DOMAIN old) \ (DOMAIN upd) : new[k] = old[k]
               /\ s_conv.messages = s_prev.messages

C20_Witness ==
    /\ LastCall("update_context")
    /\ s_prev.active
    /\ s_prev.messages # <<>>
    /\ \E k \in (DOMAIN s_prev.context) \cap (DOMAIN s_call.updates) :
          /\ s_prev.context[k] # s_call.updates[k]
          /\ s_conv.context[k] = s_call.updates[k]
    /\ (DOMAIN s_prev.context) \ (DOMAIN s_call.updates) # {}


\* C21: start_conversation replaces the current conversation: afterwards a
\* conversation is active with an empty history and an empty context,
\* whatever the store held before, and that conversation is returned.
C21_StartReplacesConversation ==
    LastCall("start_conversation")
        => /\ s_conv.active
           /\ s_conv.messages = <<>>
           /\ DOMAIN s_conv.context = {}
           /\ s_ret = s_conv

\* start_conversation was called on a store holding messages and context.
C21_Witness ==
    /\ LastCall("start_conversation")
    /\ s_prev.active
    /\ Len(s_prev.messages) >= 2
    /\ DOMAIN s_prev.context # {}
    /\ s_conv.messages = <<>>
    /\ DOMAIN s_conv.context = {}


(***************************************************************************)
(* Properties of the progress reporter (SpecLogger)                        *)
(***************************************************************************)

\* How many of the calls in a trace are log_step.
StepsIn(trace) == Cardinality({i \in 1..Len(trace) : trace[i] = "log_step"})

\* C22: the step counter is the number of log_step calls since the last
\* reset; log_result and log_working leave it as it was; after log_step
\* then log_result the stack is empty and the counter is 1, and a log_step
\* after that makes the counter 2.
C22_CounterCountsSteps ==
    /\ w_logger.step_count = StepsIn(w_trace)
    /\ (w_trace # <<>> /\ w_trace[Len(w_trace)] \in {"log_result", "log_working"})
           => w_logger.step_count = w_prev.step_count
    /\ w_trace = <<"log_step", "log_result">>
           => (w_logger.active_tasks = <<>> /\ w_logger.step_count = 1)
    /\ w_trace = <<"log_step", "log_result", "log_step">>
           => w_logger.step_count = 2

\* log_step, log_result and log_step were called, in that order, on a
\* reporter that was new or had just been reset.
C22_Witness ==
    /\ w_trace = <<"log_step", "log_result", "log_step">>
    /\ w_logger.step_count = 2
    /\ Len(w_logger.active_tasks) = 1
    /\ w_prev.step_count = 1
    /\ w_prev.active_tasks = <<>>


(***************************************************************************)
(* Properties of the polling loops' clock (SpecPoll)                       *)
(***************************************************************************)

\* C23: two consecutive heartbeats of a turn are at least 2 seconds
\* (HeartbeatTicks polling ticks) apart: a heartbeat is emitted only if the
\* turn has emitted none or its last one is at least that old.
C23_HeartbeatsTwoSecondsApart ==
    [][k_total' = k_total + 1
           => (k_since = -1 \/ k_since >= HeartbeatTicks)]_vars

\* The wrapper's loop has emitted a heartbeat after the completion wait
\* had emitted one.
C23_Witness ==
    /\ k_pc = "wrapper"
    /\ k_count >= 1
    /\ k_total > k_count
    /\ k_since >= 0

\* C24: an awaited operation that stays pending for 5 seconds and is polled
\* every 0.1 s gets at least 2 and at most 3 heartbeats from its loop.
C24_TwoOrThreeHeartbeatsInFiveSeconds ==
    (k_pc \in {"api", "wrapper"} /\ k_left = 0 /\ k_exact
        /\ k_pending = FiveSeconds)
        => (k_count >= 2 /\ k_count <= 3)

\* The wrapped task method was pending for 5 seconds, polled every 0.1 s,
\* and is done.
C24_Witness ==
    /\ k_pc = "wrapper"
    /\ k_left = 0
    /\ k_exact
    /\ k_pending = FiveSeconds
    /\ k_count = 2


(***************************************************************************)
(* Properties of the chat turns (Spec), continued                          *)
(***************************************************************************)

\* C25: a heartbeat step of a suspended turn only emits notices: it leaves
\* the conversation (messages and context), every turn's task and awaited
\* operation, the step counter and the active-step stack as they were.
C25_HeartbeatChangesNothing ==
    [][(\E p \in Procs, d \in SleepTicks : PollPending(p, d))
          => /\ current_conversation' = current_conversation
             /\ current_context' = current_context
             /\ workflow_logger' = workflow_logger
             /\ awaited' = awaited
             /\ \A p \in Procs : loc'[p].task = loc[p].task]_vars

\* The wrapper's loop has emitted a heartbeat for a pending task method,
\* with messages in the conversation and steps on the stack.
C25_Witness ==
    \E p \in Procs :
        /\ pc[p] = "await_task"
        /\ hist[p].beat = "pending"
        /\ loc[p].age = 0
        /\ loc[p].task # NoTask
        /\ workflow_logger.active_tasks # <<>>
        /\ current_conversation.messages # <<>>


\* Front end p's turn returns in this step.
Returns(p) == InTurn(p) /\ pc'[p] = Rest(p)

\* The conversational reply of the turn that returns.
ReplyOf(p) ==
    IF pc[p] = "await_api" THEN awaited[p].value
    ELSE loc[p].assistant_message

\* The solution of the task pipeline's response for the turn that returns.
SolutionOf(p) ==
    IF pc[p] = "await_task"
    THEN IF awaited[p].state = "done" THEN awaited[p].value.solution
         ELSE ErrorResponse(awaited[p].value).solution
    ELSE IF Lower(loc[p].message) \in GreetingDescriptions
    THEN GreetingResponse.solution
    ELSE ErrorResponse(UnknownTaskText(TaskTypeOf(p))).solution

\* C26: a turn whose completion call succeeded returns by one of three
\* branches, tested in this order.  If the classifier returns a task kind,
\* the result is the reply, a blank line and the task pipeline's solution,
\* and no scan has run.  Otherwise, if the message holds one of the scan
\* words, the scan has run and, unless it failed, the result is the reply,
\* a blank line and the scan summary.  Otherwise the result is the reply.
C26_ThreeBranchesInOrder ==
    [][\A p \in Procs :
          (Returns(p) /\ hist'[p].outcome # "error")
              => IF Truthy(identify_task_type(loc[p].message))
                 THEN /\ hist'[p].outcome \in {"task", "task_failed"}
                      /\ hist'[p].response = Combined(ReplyOf(p), SolutionOf(p))
                      /\ awaited[p].kind # "scan"
                 ELSE IF AnyIn(FileKeywords, Lower(loc[p].message))
                 THEN /\ hist'[p].outcome \in {"scan", "scan_failed"}
                      /\ awaited[p].kind = "scan"
                      /\ hist'[p].outcome = "scan"
                            => hist'[p].response
                                   = Combined(ReplyOf(p), ScanSummary)
                 ELSE /\ hist'[p].outcome = "reply"
                      /\ hist'[p].response = ReplyOf(p)
                      /\ awaited[p].kind = "api"]_vars

\* A turn whose message is a task and also holds a scan word has returned
\* the reply with the task's solution.
C26_Witness ==
    \E p \in Procs, i \in 1..Len(current_conversation.messages) :
        /\ TurnEnded(p)
        /\ hist[p].outcome = "task"
        /\ hist[p].user_at = i
        /\ Truthy(identify_task_type(current_conversation.messages[i].content))
        /\ AnyIn(FileKeywords, Lower(current_conversation.messages[i].content))


\* C27: a workspace-scan failure is recovered inside the scan branch.  The
\* turn returns the reply followed by the error text, the handler of the
\* outer try is not entered, and the conversation gets no message for the
\* failure: that step leaves it unchanged, and it never holds the error
\* message of a scan failure.
C27_ScanFailureRecoveredLocally ==
    /\ [](\A i \in 1..Len(current_conversation.messages) :
              current_conversation.messages[i].content
                  # ErrorMessage(SCAN_ERROR))
    /\ [][\A p \in Procs :
             (pc[p] = "await_scan" /\ awaited[p].state = "failed"
                 /\ Returns(p))
                 => /\ hist'[p].response
                           = ScanErrorText(loc[p].assistant_message, SCAN_ERROR)
                    /\ hist'[p].outcome = "scan_failed"
                    /\ hist'[p].raised = None
                    /\ current_conversation' = current_conversation]_vars

\* A turn has ended whose scan failed: it returned the recorded reply
\* followed by the error text.
C27_Witness ==
    \E p \in Procs :
        /\ TurnEnded(p)
        /\ hist[p].outcome = "scan_failed"
        /\ hist[p].raised = None
        /\ hist[p].asst_at \in 1..Len(current_conversation.messages)
        /\ hist[p].response =
               ScanErrorText(
                   current_conversation.messages[hist[p].asst_at].content,
                   SCAN_ERROR)


(***************************************************************************)
(* Properties of the task endpoint (SpecTask)                              *)
(***************************************************************************)

\* C28: process_task never raises for a completion failure.  For each kind
\* with a task method and a failure of any of its completion calls, it
\* returns a CodeResponse whose solution states the error, with no
\* suggestions and no code changes.
C28_CompletionFailureReturned ==
    (t_pc = "responded" /\ t_failed > 0)
        => /\ t_task.task_type \in {ANALYZE, GENERATE, REVIEW}
           /\ t_outcome.raised = "none"
           /\ t_outcome.value.solution =
                  ErrorResponse(TaskFailureText(t_task.task_type,
                                                t_error)).solution
           /\ Contains(t_outcome.value.solution, t_error)
           /\ t_outcome.value.suggestions = None
           /\ t_outcome.value.code_changes = None

\* The second completion call of a review has failed and the request is
\* answered.
C28_Witness ==
    /\ t_pc = "responded"
    /\ t_failed = 2
    /\ t_task.task_type = REVIEW
    /\ t_outcome.raised = "none"
    /\ Contains(t_outcome.value.solution, t_error)

\* C29: a kind with no task method is signaled as an unimplemented
\* condition, apart from backend errors, so that the endpoint answers 501
\* and not a normal response or an internal error.
C29_UnknownKindNotImplemented ==
    LET unknown == /\ t_pc = "responded"
                   /\ t_task.task_type \notin {ANALYZE, GENERATE, REVIEW}
                   /\ Lower(t_task.description) \notin GreetingDescriptions
    IN  unknown => (t_outcome.raised = "NotImplementedError"
                    /\ t_status = 501)

\* C30: a task whose description is "hi" gets the fixed greeting solution
\* with the explanation "Greeting message", no suggestions and no code
\* changes, whatever its kind, a kind with no method included.
C30_GreetingWhateverTheKind ==
    (t_pc = "responded" /\ t_task.description = <<"h", "i">>)
        => /\ t_outcome = Returned(GreetingResponse)
           /\ t_outcome.value.explanation
                  = <<"G", "r", "e", "e", "t", "i", "n", "g", " ",
                      "m", "e", "s", "s", "a", "g", "e">>
           /\ t_outcome.value.suggestions = None
           /\ t_outcome.value.code_changes = None
           /\ t_status = 200

\* A request of a kind with no method and the description "hi" has been
\* answered with the greeting.
C30_Witness ==
    /\ t_pc = "responded"
    /\ t_task.description = <<"h", "i">>
    /\ t_task.task_type = UNKNOWN_KIND
    /\ t_outcome.value.solution = GreetingResponse.solution
    /\ t_served >= 2

\* C32: a task method issues its completion calls one after the other:
\* analyze exactly one, generate and review exactly two when the first
\* succeeds; the second call is out only after the first has answered a
\* text, and its messages carry that text as an assistant message; after a
\* failed first call there is no second call.
C32_CallsOfTheTaskMethods ==
    LET kind == t_task.task_type
        calls == Len(t_requests)
        returned == /\ t_pc = "responded"
                    /\ t_failed = 0
                    /\ t_requests # <<>>
    IN  /\ t_pc = "call1" => (calls = 1 /\ t_first = None)
        /\ t_pc = "call2" =>
              (calls = 2 /\ kind \in {GENERATE, REVIEW} /\ t_first # None)
        /\ calls = 2 =>
              /\ t_first # None
              /\ t_failed # 1
              /\ \E i \in 1..Len(t_requests[2]) :
                    t_requests[2][i] = <<"assistant", t_first>>
        /\ returned => calls = (IF kind = ANALYZE THEN 1 ELSE 2)
        /\ t_failed = 1 => calls = 1
        /\ calls <= 2

\* A review request has been answered after both its calls returned a text.
C32_Witness ==
    /\ t_pc = "responded"
    /\ t_task.task_type = REVIEW
    /\ t_failed = 0
    /\ Len(t_requests) = 2

(***************************************************************************)
(* Properties of the chat turns (Spec): what follows the completion        *)
(***************************************************************************)

\* The turn of front end p did `event` as the i-th thing after its
\* completion was awaited.
DidAt(p, i, event) ==
    /\ i \in 1..Len(hist[p].events)
    /\ hist[p].events[i] = event

\* C33: in every turn the classifier is called directly after the
\* assistant reply has been recorded, and a task pipeline or a workspace
\* scan only after the classifier; a turn whose completion failed (the
\* backend raised, or the response had no usable choice) ends on the
\* failure path having recorded no reply, classified nothing and started
\* neither a task pipeline nor a scan.
C33_ClassifierAfterRecordedReply ==
    \A p \in Procs :
        LET g == hist[p]
            n == Len(g.events)
        IN  /\ \A i \in 1..n :
                  /\ g.events[i] = "classify" =>
                        /\ DidAt(p, i - 1, "reply")
                        /\ g.asst_at > 0
                  /\ g.events[i] \in {"task", "scan"} =>
                        DidAt(p, i - 1, "classify")
            /\ g.outcome = "error" =>
                  /\ g.events = <<>>
                  /\ pc[p] \notin {"await_task", "await_scan"}
            /\ pc[p] \in {"await_task", "await_scan"} =>
                  DidAt(p, 2, "classify")

\* A turn whose completion call failed has ended on the failure path.
C33_Witness ==
    \E p \in Procs :
        /\ hist[p].outcome = "error"
        /\ hist[p].raised \notin {None, CONTEXT_ERROR}
        /\ hist[p].asst_at > 0

(***************************************************************************)
(* Properties of the polling loops' clock on a running event loop          *)
(* (SpecPollFair)                                                          *)
(***************************************************************************)

InLoopOf(where) == where \in {"api", "wrapper", "scan"}

\* A step that is an iteration body of the loop the turn is in: the loop
\* is not left and its clock or its heartbeats change.
IterationBody ==
    /\ InLoopOf(k_pc)
    /\ k_pc' = k_pc
    /\ <<k_age, k_left, k_count, k_total, k_late>>'
           # <<k_age, k_left, k_count, k_total, k_late>>

\* C34: a polling loop goes through its body only while the awaited call
\* is pending; once the call is done the loop's next step leaves the loop,
\* at the end of the sleep during which the call completed (with sleeps of
\* exactly 0.1 s, within that tick); and every loop is left in the end, the
\* turn returning once its awaited calls have completed or failed.
C34_LoopExitsAtNextWakeUp ==
    /\ [][IterationBody => k_left > 0]_vars
    /\ [][(InLoopOf(k_pc) /\ k_left = 0) => k_pc' # k_pc]_vars
    /\ []((InLoopOf(k_pc) /\ k_left = 0) =>
              (k_late < 2 /\ (k_exact => k_late = 0)))
    /\ (InLoopOf(k_pc) ~> k_pc = "returned")

\* The turn has returned from a wrapper's loop whose task method completed
\* during a sleep that overran, after at least one heartbeat.
C34_Witness ==
    /\ k_pc = "returned"
    /\ k_pending >= HeartbeatTicks
    /\ k_count >= 1
    /\ k_late = 1

(***************************************************************************)
(* Properties of a review's suggestions (SpecReview)                       *)
(***************************************************************************)

\* The suggestion holds one of the six critical words, in any case.
HoldsCriticalWord(suggestion) ==
    \E w \in { <<"c", "r", "i", "t", "i", "c", "a", "l">>, <<"s", "e", "c", "u", "r", "i", "t", "y">>, <<"v", "u", "l", "n", "e", "r", "a", "b", "i", "l", "i", "t", "y">>, <<"u", "r", "g", "e", "n", "t">>, <<"b", "u", "g">>, <<"e", "r", "r", "o", "r">> } :
        Contains(Lower(suggestion), w)

\* The entry of the prioritized list without the marker and the blank the
\* code puts in front of it.
Unmarked(entry) == SubSeq(entry, 3, Len(entry))

\* Where a stable partition puts the i-th extracted suggestion: behind the
\* earlier suggestions of its group, the critical group first.
PlaceOf(i) ==
    LET critical == HoldsCriticalWord(r_all[i])
        before == Cardinality({j \in 1..(i - 1) :
                                  HoldsCriticalWord(r_all[j]) = critical})
        criticals == Cardinality({j \in 1..Len(r_all) :
                                     HoldsCriticalWord(r_all[j])})
    IN  IF critical THEN before + 1 ELSE criticals + before + 1

\* C35: the suggestion list of a review is a stable partition of the
\* extracted suggestions: every suggestion that holds a critical word (in
\* any case) comes before every other one, the order inside each group is
\* the extraction order, and every extracted suggestion appears exactly
\* once (behind the marker the code puts in front of it).
C35_StablePartition ==
    r_pc = "returned" =>
        /\ Len(r_out) = Len(r_all)
        /\ \A i \in 1..Len(r_all) :
              /\ PlaceOf(i) \in 1..Len(r_out)
              /\ Unmarked(r_out[PlaceOf(i)]) = r_all[i]
        /\ \A i, j \in 1..Len(r_all) : i # j => PlaceOf(i) # PlaceOf(j)
        /\ \A i, j \in 1..Len(r_out) :
              (/\ HoldsCriticalWord(Unmarked(r_out[i]))
               /\ ~HoldsCriticalWord(Unmarked(r_out[j]))) => i < j
        /\ \A i, j \in 1..Len(r_all) :
              (i < j /\ HoldsCriticalWord(r_all[i]) = HoldsCriticalWord(r_all[j]))
                  => PlaceOf(i) < PlaceOf(j)

\* A review whose extracted suggestions had a critical one after another
\* one, and a suggestion twice, has been put in order.
C35_Witness ==
    /\ r_pc = "returned"
    /\ \E i, j \in 1..Len(r_all) :
          i < j /\ ~HoldsCriticalWord(r_all[i]) /\ HoldsCriticalWord(r_all[j])
    /\ \E i, j \in 1..Len(r_all) : i < j /\ r_all[i] = r_all[j]
    /\ Len(r_out) >= 4

\* The positions of the messages front end p's turns have appended.
AppendedBy(p) ==
    {i \in 1..Len(current_conversation.messages) :
        current_conversation.messages[i].metadata = [source |-> SourceOf(p)]}

\* C37: every chat turn appends exactly two messages to the conversation:
\* its user message and then one assistant message, which is the backend's
\* reply, or the error text when the turn failed before a reply was
\* recorded.  A turn with no other turn in between has them next to each
\* other.  What a task turn or a scan turn returns, the reply with the
\* solution or the summary behind it, is no message of the conversation.
C37_TurnAppendsTwoMessages ==
    /\ Len(current_conversation.messages)
           = Cardinality(AppendedBy("cli")) + Cardinality(AppendedBy("slack"))
    /\ \A p \in Procs :
          LET g == hist[p]
              msgs == current_conversation.messages
              recorded == g.asst_at > 0
          IN  /\ Cardinality(AppendedBy(p))
                     = IF g.turn_no = 0 THEN 0
                       ELSE IF recorded THEN 2 * g.turn_no
                       ELSE 2 * g.turn_no - 1
              /\ TurnEnded(p) =>
                    /\ recorded
                    /\ msgs[g.user_at].role = "user"
                    /\ msgs[g.asst_at].role = "assistant"
                    /\ {g.user_at, g.asst_at} \subseteq AppendedBy(p)
                    /\ \A i \in (g.user_at + 1)..(g.asst_at - 1) :
                          i \notin AppendedBy(p)
                    /\ (\A i \in g.user_at..Len(msgs) : i \in AppendedBy(p))
                          => (g.asst_at = g.user_at + 1 /\ g.asst_at = Len(msgs))
                    /\ IF g.outcome = "error"
                       THEN msgs[g.asst_at].content = ErrorMessage(g.raised)
                       ELSE msgs[g.asst_at].content \in BackendTexts
                    /\ g.outcome \in {"task", "task_failed", "scan", "scan_failed"}
                          => /\ g.response # msgs[g.asst_at].content
                             /\ \A i \in 1..Len(msgs) :
                                   msgs[i].content # g.response

\* The command prompt's turn has returned a reply with a task's solution,
\* the gateway having had no turn: the conversation holds two messages.
C37_Witness ==
    /\ TurnEnded("cli")
    /\ hist["cli"].outcome = "task"
    /\ hist["slack"].turn_no = 0
    /\ hist["cli"].turn_no = 1
    /\ Len(current_conversation.messages) = 2

\* The wrapper of front end p's task method returns or re-raises in this
\* step (and chat(), after process_task, logs "Task completed" and returns).
WrapperLeaves(p) == pc[p] = "await_task" /\ pc'[p] # "await_task"

\* C38: the wrapper of a task method is stack-balanced: it pushes one step
\* before the method runs and pops one step when the method returns or
\* raises, so that the stack of active steps after the wrapped call is the
\* stack before it; a failure is re-raised after the pop (process_task
\* turns it into the error response the turn returns).
C38_WrapperStackBalanced ==
    [][\A p \in Procs :
          WrapperLeaves(p) =>
              /\ hist'[p].pops = hist[p].pops + 1
              /\ workflow_logger'.active_tasks
                     = Append(loc[p].entry, "Task completed")
              /\ awaited[p].state = "failed" =>
                    /\ hist'[p].outcome = "task_failed"
                    /\ hist'[p].failed = hist[p].failed + 1]_vars

\* The wrapper called by one request at a time (SpecTask): the stack after
\* the wrapped call is the stack before it, and a failure of the method
\* has reached process_task.
WrapperBalancedAlone ==
    (t_pc = "responded" /\ t_requests # <<>>) =>
        /\ t_logger.active_tasks = t_entry.active_tasks
        /\ t_logger.step_count = t_entry.step_count + 1
        /\ t_failed # 0 =>
              t_outcome = Returned(ErrorResponse(
                              TaskFailureText(t_task.task_type, t_error)))

(***************************************************************************)
(* Properties of the code-change extractor (SpecParse), continued          *)
(***************************************************************************)

\* The keys the step adds to the output or gives another value.
Written ==
    {k \in DOMAIN changes' : k \notin DOMAIN changes \/ changes'[k] # changes[k]}

\* C39: the extractor emits no entry built from zero content lines.  A
\* step that finds the buffer empty (the path was just opened, and is now
\* closed by a bare fence, replaced by another marker, or followed by the
\* end of the input) leaves the output as it was: it adds no key and
\* overwrites no earlier value.  A key is written only for the open path
\* and with the lines accumulated for it, of which there is at least one.
C39_NoEntryFromZeroLines ==
    [][p_pc = "loop" =>
          /\ current_content = <<>> => changes' = changes
          /\ DOMAIN changes \subseteq DOMAIN changes'
          /\ \A k \in Written :
                /\ current_content # <<>>
                /\ k = current_file
                /\ changes'[k] = Join(current_content, NEWLINE)]_vars

\* a.py has a value; b/c was opened and replaced by the next marker with no
\* line in between, a.py was opened again and the input ended: the output
\* holds a.py with its first value and nothing else.
C39_Witness ==
    /\ p_pc = "returned"
    /\ lines = << <<"F", "i", "l", "e", ":", " ", "a", ".", "p", "y">>, <<"x">>, <<"f", "i", "l", "e", "n", "a", "m", "e", ":", " ", "b", "/", "c">>, <<"F", "i", "l", "e", ":", " ", "a", ".", "p", "y">> >>
    /\ DOMAIN p_result = { <<"a", ".", "p", "y">> }
    /\ p_result[ <<"a", ".", "p", "y">> ] = <<"x">>

====
